---- MODULE Spec2Model ----
(***************************************************************************)
(* A model of the WhatsApp chat analysis core:                             *)
(*   backend/apps/chat_analysis/preprocessing.py  WhatsAppChatPreprocessor *)
(*   backend/apps/sentiment/analyzers.py          the scorers and ensemble *)
(*   backend/apps/chat_analysis/tasks.py          process_whatsapp_chat    *)
(*                                                                         *)
(* A Python str is a sequence of tokens; a token is a literal piece of     *)
(* text (a TLA+ string).  What the regular expressions, str methods and    *)
(* external libraries answer for a token is given by the lexical tables    *)
(* below; everything built on top of them follows the code.                *)
(* Scores are in hundredths: 0.1 is 10, 0.05 is 5, 1.0 is 100.             *)
(***************************************************************************)
EXTENDS Integers, Sequences, FiniteSets, TLC

VARIABLES
    file_content,        \* the transcript handed to process_whatsapp_chat
    anonymize,           \* chat_analysis.anonymize_participants
    pc,                  \* position of the task
    format_type,         \* preprocess: detected format
    messages,            \* preprocess: chunks from extract_messages_and_dates
    dates,               \* preprocess: timestamps from extract_messages_and_dates
    idx,                 \* preprocess: number of (chunk, timestamp) pairs consumed
    processed_messages,  \* preprocess: rows accumulated for the DataFrame
    participants,        \* preprocess: set of usernames
    result,              \* preprocess: the returned dict
    chat_analysis,       \* the ChatAnalysis row
    participants_map,    \* task: username -> ChatParticipant
    chat_messages,       \* the ChatMessage rows created
    sentiment_scores,    \* task: collected ensemble scores
    progress,            \* task: update_state reports
    batch_start,         \* task: the batch loop's i
    retries,             \* task: self.request.retries
    anon,                \* anonymizer harness: inputs and outputs
    fusion,              \* analyzer harness: inputs and outputs
    toxicity,            \* toxicity harness: inputs and outputs
    uploads,             \* upload harness: the ChatAnalysis rows stored and the last response
    aggregate,           \* aggregation harness: message scores in, overall statistics out
    batches,             \* batch-loop harness: the rows in, the progress reports out
    pool,                \* analyze_batch harness: the futures, the workers and the results list
    loading,             \* model-loading harness: the scorers' is_loaded flags and load_model runs
    task,                \* retry harness: the rows in the database and the position of the attempt
    detect,              \* detect_format harness: the text in, the format out
    stamps,              \* timestamp harness: the date strings in, the records kept out
    moods,               \* emotion harness: the messages' dominant emotions in, the dominant emotions out
    features             \* feature harness: the message in, its caps_ratio out

pipeline_vars ==
    <<file_content, anonymize, pc, format_type, messages, dates, idx,
      processed_messages, participants, result, chat_analysis,
      participants_map, chat_messages, sentiment_scores, progress,
      batch_start, retries>>

harness_vars == <<anon, fusion, toxicity, uploads, aggregate, batches, pool, loading, task, detect, stamps, moods, features>>

vars == <<pipeline_vars, harness_vars>>

(***************************************************************************)
(* Bounds of the model.                                                    *)
(***************************************************************************)
MaxLines == 3

MaxLabels == 3

MaxUploads == 3

MaxMessages == 3

MaxBlocks == 3

MaxTexts == 3

MaxCalls == 3

MaxWorkers == 2

MaxParticipants == 2

MaxBatches == 2

MaxFaults == 1

MaxDetectLines == 2

MaxDates == 2

MaxChars == 3

(***************************************************************************)
(* Python values.                                                          *)
(***************************************************************************)
\* an Optional value is a sequence of at most one element
None == <<>>

Some(x) == <<x>>

Min(a, b) == IF a <= b THEN a ELSE b

RECURSIVE Join(_)
Join(s) == IF s = <<>> THEN "" ELSE Head(s) \o Join(Tail(s))

(***************************************************************************)
(* Lexical tables: the tokens transcripts are made of.                     *)
(***************************************************************************)
NL == "\n"
SEP == ": "
Filler == "...1000 characters of forwarded text..."

\* timestamp prefixes: the matched text, the grammar whose regex matches it,
\* and the regex's capture group
Prefixes ==
    { [tok |-> "12/25/2023, 10:30 - ", grammar |-> "dash",
       group |-> "12/25/2023, 10:30"],
      [tok |-> "12/25/2023, 10:31 - ", grammar |-> "dash",
       group |-> "12/25/2023, 10:31"],
      [tok |-> "99/99/2023, 10:32 - ", grammar |-> "dash",
       group |-> "99/99/2023, 10:32"],
      [tok |-> "[12/25/2023, 10:33:05] ", grammar |-> "bracket",
       group |-> "12/25/2023, 10:33:05"],
      [tok |-> "05/06/2023, 10:34 - ", grammar |-> "dash",
       group |-> "05/06/2023, 10:34"],
      [tok |-> "25/12/2023, 10:35 - ", grammar |-> "dash",
       group |-> "25/12/2023, 10:35"],
      [tok |-> "05/06/23, 10:36 - ", grammar |-> "dash",
       group |-> "05/06/23, 10:36"],
      [tok |-> "[05/06/2023, 10:37:09] ", grammar |-> "bracket",
       group |-> "05/06/2023, 10:37:09"] }

PrefixOf(tok) == CHOOSE p \in Prefixes : p.tok = tok

IsPrefixTok(tok) == \E p \in Prefixes : p.tok = tok

\* the numbers written in a timestamp string; sec = -1 when none is written
TsFields ==
    [ g \in {p.group : p \in Prefixes} |->
        CASE g = "12/25/2023, 10:30" ->
               [a |-> 12, b |-> 25, year |-> 2023, ydigits |-> 4, hh |-> 10, mm |-> 30, sec |-> -1]
          [] g = "12/25/2023, 10:31" ->
               [a |-> 12, b |-> 25, year |-> 2023, ydigits |-> 4, hh |-> 10, mm |-> 31, sec |-> -1]
          [] g = "99/99/2023, 10:32" ->
               [a |-> 99, b |-> 99, year |-> 2023, ydigits |-> 4, hh |-> 10, mm |-> 32, sec |-> -1]
          [] g = "12/25/2023, 10:33:05" ->
               [a |-> 12, b |-> 25, year |-> 2023, ydigits |-> 4, hh |-> 10, mm |-> 33, sec |-> 5]
          [] g = "05/06/2023, 10:34" ->
               [a |-> 5, b |-> 6, year |-> 2023, ydigits |-> 4, hh |-> 10, mm |-> 34, sec |-> -1]
          [] g = "25/12/2023, 10:35" ->
               [a |-> 25, b |-> 12, year |-> 2023, ydigits |-> 4, hh |-> 10, mm |-> 35, sec |-> -1]
          [] g = "05/06/23, 10:36" ->
               [a |-> 5, b |-> 6, year |-> 23, ydigits |-> 2, hh |-> 10, mm |-> 36, sec |-> -1]
          [] g = "05/06/2023, 10:37:09" ->
               [a |-> 5, b |-> 6, year |-> 2023, ydigits |-> 4, hh |-> 10, mm |-> 37, sec |-> 9] ]

CharLen(tok) == IF tok = Filler THEN 1000 ELSE Len(tok)

RECURSIVE TextLen(_)
TextLen(text) == IF text = <<>> THEN 0 ELSE CharLen(Head(text)) + TextLen(Tail(text))

IsSpace(tok) == tok = NL

\* the lower-cased needles of is_system_message and of the media test that
\* occur in a token
Needles(tok) ==
    CASE tok = "<Media omitted>" -> {"<media omitted>", "omitted"}
      [] tok = "sticker omitted" -> {"omitted"}
      [] tok = "Bob left"        -> {"left"}
      [] OTHER                   -> {}

\* re.sub(r'\+\d+', '') and re.sub(r'[^\w\s-]', '') on a token of a username
CleanNameTok(tok) ==
    CASE tok = "~Ann" -> "Ann"
      [] OTHER        -> tok

\* remove_urls, demojize, re.sub(r'[^\w\s.,!?-]', '') on a token of a body
CleanBodyTok(tok) ==
    CASE tok = "This is awesome! http://x.co" -> "This is awesome!"
      [] tok = "<Media omitted>"              -> "Media omitted"
      [] tok = "12/25/2023, 10:30"            -> "12252023, 1030"
      [] tok = "12/25/2023, 10:31"            -> "12252023, 1031"
      [] tok = "99/99/2023, 10:32"            -> "99992023, 1032"
      [] tok = "12/25/2023, 10:33:05"         -> "12252023, 103305"
      [] tok \in {NL, SEP}                    -> " "
      [] OTHER                                -> tok

\* langdetect.detect on a cleaned text: an ISO 639-1 code, or "raise" for
\* LangDetectException (no features in text)
Detect(text) ==
    CASE text \in {"This is awesome!", "So happy today", "This is awful"} -> "en"
      [] OTHER -> "raise"

(***************************************************************************)
(* str helpers.                                                            *)
(***************************************************************************)
Range(s) == {s[i] : i \in DOMAIN s}

RECURSIVE LStrip(_)
LStrip(s) == IF s # <<>> /\ IsSpace(Head(s)) THEN LStrip(Tail(s)) ELSE s

RECURSIVE RStrip(_)
RStrip(s) ==
    IF s # <<>> /\ IsSpace(s[Len(s)]) THEN RStrip(SubSeq(s, 1, Len(s) - 1)) ELSE s

\* str.strip()
Strip(s) == RStrip(LStrip(s))

\* index of the first SEP token, 0 when there is none
FirstSep(s) ==
    IF \E i \in DOMAIN s : s[i] = SEP
    THEN CHOOSE i \in DOMAIN s : s[i] = SEP /\ \A j \in 1..(i - 1) : s[j] # SEP
    ELSE 0

(***************************************************************************)
(* WhatsAppChatPreprocessor.__init__                                       *)
(***************************************************************************)
\* self.patterns, in dict order; "web" is the same regex as "android"
FormatOrder == <<"android", "ios", "web">>

patterns == [android |-> "dash", ios |-> "bracket", web |-> "dash"]

\* self.system_patterns, as is_system_message sees them: pattern.lower()
system_patterns ==
    { "messages and calls are end-to-end encrypted", "created group",
      "added you", "left", "joined using this group's invite link",
      "changed the group description", "changed the subject",
      "you deleted this message", "this message was deleted",
      "<media omitted>", "image omitted", "video omitted", "audio omitted",
      "document omitted", "contact card omitted", "location:" }

(***************************************************************************)
(* Python's re on token sequences.                                         *)
(***************************************************************************)
Matches(pattern, tok) == IsPrefixTok(tok) /\ PrefixOf(tok).grammar = pattern

\* re.search(pattern, text[:n]): a whole match lies in the first n characters
ReSearch(pattern, text, n) ==
    \E i \in DOMAIN text :
        /\ Matches(pattern, text[i])
        /\ TextLen(SubSeq(text, 1, i)) <= n

\* re.split with a pattern that has one capturing group: the pieces between
\* the matches, with each match's group between them
RECURSIVE ReSplitFrom(_, _, _)
ReSplitFrom(pattern, text, piece) ==
    IF text = <<>> THEN <<piece>>
    ELSE IF Matches(pattern, Head(text))
         THEN <<piece, <<PrefixOf(Head(text)).group>>>>
                  \o ReSplitFrom(pattern, Tail(text), <<>>)
         ELSE ReSplitFrom(pattern, Tail(text), Append(piece, Head(text)))

ReSplit(pattern, text) == ReSplitFrom(pattern, text, <<>>)

\* re.findall with one capturing group: the groups, in order
RECURSIVE ReFindall(_, _)
ReFindall(pattern, text) ==
    IF text = <<>> THEN <<>>
    ELSE IF Matches(pattern, Head(text))
         THEN <<<<PrefixOf(Head(text)).group>>>> \o ReFindall(pattern, Tail(text))
         ELSE ReFindall(pattern, Tail(text))

(***************************************************************************)
(* detect_format, extract_messages_and_dates                               *)
(***************************************************************************)
DetectWindow == 1000

RECURSIVE DetectFrom(_, _)
DetectFrom(k, text) ==
    IF k > Len(FormatOrder) THEN "android"
    ELSE IF ReSearch(patterns[FormatOrder[k]], text, DetectWindow)
         THEN FormatOrder[k]
         ELSE DetectFrom(k + 1, text)

detect_format(text) == DetectFrom(1, text)

extract_messages_and_dates(text, fmt) ==
    LET pattern == patterns[fmt]
        msgs == Tail(ReSplit(pattern, text))
        dts == ReFindall(pattern, text)
        min_length == Min(Len(msgs), Len(dts))
    IN  [messages |-> SubSeq(msgs, 1, min_length),
         dates |-> SubSeq(dts, 1, min_length)]

(***************************************************************************)
(* parse_datetime                                                          *)
(***************************************************************************)
\* the strptime formats, in list order
DateFormats ==
    << [dayfirst |-> TRUE,  ydigits |-> 4, seconds |-> FALSE],
       [dayfirst |-> FALSE, ydigits |-> 4, seconds |-> FALSE],
       [dayfirst |-> TRUE,  ydigits |-> 2, seconds |-> FALSE],
       [dayfirst |-> FALSE, ydigits |-> 2, seconds |-> FALSE],
       [dayfirst |-> TRUE,  ydigits |-> 4, seconds |-> TRUE],
       [dayfirst |-> FALSE, ydigits |-> 4, seconds |-> TRUE] >>

IsLeap(y) == (y % 4 = 0 /\ y % 100 # 0) \/ y % 400 = 0

DaysInMonth(y, m) ==
    IF m = 2 THEN (IF IsLeap(y) THEN 29 ELSE 28)
    ELSE IF m \in {4, 6, 9, 11} THEN 30 ELSE 31

\* datetime.strptime(date_str, fmt): the datetime, or None for ValueError
Strptime(f, fmt) ==
    LET day == IF fmt.dayfirst THEN f.a ELSE f.b
        month == IF fmt.dayfirst THEN f.b ELSE f.a
        year == IF fmt.ydigits = 4 THEN f.year
                ELSE IF f.year <= 68 THEN 2000 + f.year ELSE 1900 + f.year
    IN  IF /\ f.ydigits = fmt.ydigits
           /\ (f.sec >= 0) = fmt.seconds
           /\ month \in 1..12
           /\ year >= 1
           /\ day \in 1..DaysInMonth(year, month)
           /\ f.hh \in 0..23 /\ f.mm \in 0..59 /\ f.sec <= 59
        THEN Some([year |-> year, month |-> month, day |-> day,
                   hour |-> f.hh, minute |-> f.mm,
                   second |-> IF f.sec >= 0 THEN f.sec ELSE 0])
        ELSE None

RECURSIVE ParseFrom(_, _)
ParseFrom(k, f) ==
    IF k > Len(DateFormats) THEN None
    ELSE IF Strptime(f, DateFormats[k]) # None THEN Strptime(f, DateFormats[k])
         ELSE ParseFrom(k + 1, f)

parse_datetime(date_str) ==
    LET s == Strip(date_str)
    IN  IF Len(s) = 1 /\ s[1] \in DOMAIN TsFields
        THEN ParseFrom(1, TsFields[s[1]])
        ELSE None

(***************************************************************************)
(* extract_user_and_message, is_system_message, clean_text_for_analysis,   *)
(* detect_language                                                         *)
(***************************************************************************)
extract_user_and_message(message_text) ==
    LET k == FirstSep(message_text)
    IN  IF k > 0
        THEN LET part0 == Strip(SubSeq(message_text, 1, k - 1))
                 part1 == SubSeq(message_text, k + 1, Len(message_text))
             IN  [username |-> Join([i \in DOMAIN part0 |-> CleanNameTok(part0[i])]),
                  message |-> Strip(part1)]
        ELSE [username |-> "System", message |-> Strip(message_text)]

NeedlesIn(message) == UNION {Needles(message[i]) : i \in DOMAIN message}

is_system_message(message) == \E p \in system_patterns : p \in NeedlesIn(message)

is_media_message(message) ==
    "<media omitted>" \in NeedlesIn(message) \/ "omitted" \in NeedlesIn(message)

clean_text_for_analysis(text) ==
    IF text = <<>> THEN ""
    ELSE Join([i \in DOMAIN Strip(text) |-> CleanBodyTok(Strip(text)[i])])

language_map == [en |-> "english", hi |-> "hindi", ur |-> "urdu", ar |-> "arabic"]

detect_language(text) ==
    IF text = <<>> \/ TextLen(Strip(text)) < 3 THEN "unknown"
    ELSE LET clean_text == clean_text_for_analysis(text)
         IN  IF Len(clean_text) < 3 THEN "unknown"
             ELSE LET detected == Detect(clean_text)
                  IN  IF detected = "raise" THEN "unknown"
                      ELSE IF detected \in DOMAIN language_map
                           THEN language_map[detected]
                           ELSE detected

message_type_of(message_content) ==
    IF is_system_message(message_content) THEN "system"
    ELSE IF is_media_message(message_content) THEN "media"
    ELSE "text"

(***************************************************************************)
(* Sentiment scorers (analyzers.py).  What the external libraries answer   *)
(* for a text is the scorer's raw input:                                   *)
(*   vader    [load_error, fault, compound]  polarity_scores(text)         *)
(*   textblob [fault, polarity, subjectivity] TextBlob(text).sentiment     *)
(*   roberta  [load_error, fault, results]   pipeline(text)[0], a list of  *)
(*            [label, score] whose scores are probabilities (sum to 100)   *)
(***************************************************************************)
\* str.strip() on a text held as one string
StripStr(text) == IF text \in {"", " ", "\n"} THEN "" ELSE text

Abs(x) == IF x < 0 THEN -x ELSE x

Degraded == [score |-> 0, label |-> "neutral", confidence |-> 0]

\* a verdict returned, or an exception raised
Returned(v) == [raised |-> FALSE, verdict |-> v]

Raised == [raised |-> TRUE]

supported_languages ==
    [vader |-> {"en", "hinglish"}, textblob |-> {"en"}, roberta |-> {"en"}]

is_language_supported(name, language) == language \in supported_languages[name]

VaderLabel(compound_score) ==
    IF compound_score >= 5 THEN "positive"
    ELSE IF compound_score <= -5 THEN "negative"
    ELSE "neutral"

\* the thresholds taken inclusively
TextBlobLabelInclusive(polarity) ==
    IF polarity >= 10 THEN "positive"
    ELSE IF polarity <= -10 THEN "negative"
    ELSE "neutral"

TextBlobLabel(polarity) ==
    IF polarity > 10 THEN "positive"
    ELSE IF polarity < -10 THEN "negative"
    ELSE "neutral"

\* load_model (lines 95-96) is called outside the try: its exception leaves
\* analyze_sentiment
VADERAnalyzer_analyze_sentiment(text, raw) ==
    IF raw.load_error THEN Raised
    ELSE IF StripStr(text) = "" THEN Returned(Degraded)
    ELSE IF raw.fault THEN Returned(Degraded)
    ELSE Returned([score |-> raw.compound,
                   label |-> VaderLabel(raw.compound),
                   confidence |-> Abs(raw.compound)])

TextBlobAnalyzer_analyze_sentiment(text, raw) ==
    IF StripStr(text) = "" THEN Returned(Degraded)
    ELSE IF raw.fault THEN Returned(Degraded)
    ELSE Returned([score |-> raw.polarity,
                   label |-> TextBlobLabel(raw.polarity),
                   confidence |-> raw.subjectivity])

label_map(l) ==
    CASE l \in {"POSITIVE", "LABEL_2"} -> "positive"
      [] l \in {"NEGATIVE", "LABEL_0"} -> "negative"
      [] l \in {"NEUTRAL", "LABEL_1"}  -> "neutral"
      [] OTHER                         -> l

\* max(results, key=score): the first of the highest-scoring results
BestResult(results) ==
    LET i == CHOOSE i \in DOMAIN results :
                 /\ \A j \in DOMAIN results : results[j].score <= results[i].score
                 /\ \A j \in 1..(i - 1) : results[j].score < results[i].score
    IN  results[i]

TransformerScore(label, confidence) ==
    IF label = "positive" THEN confidence
    ELSE IF label = "negative" THEN -confidence
    ELSE 0

TransformerAnalyzer_analyze_sentiment(text, raw) ==
    IF raw.load_error THEN Raised
    ELSE IF StripStr(text) = "" THEN Returned(Degraded)
    ELSE IF raw.fault THEN Returned(Degraded)
    ELSE LET best_result == BestResult(raw.results)
             label == label_map(best_result.label)
             confidence == best_result.score
         IN  Returned([score |-> TransformerScore(label, confidence),
                       label |-> label,
                       confidence |-> confidence])

analyze_sentiment(name, text, raw) ==
    CASE name = "vader"    -> VADERAnalyzer_analyze_sentiment(text, raw.vader)
      [] name = "textblob" -> TextBlobAnalyzer_analyze_sentiment(text, raw.textblob)
      [] name = "roberta"  -> TransformerAnalyzer_analyze_sentiment(text, raw.roberta)

(***************************************************************************)
(* ToxicityAnalyzer.  The raw input is [pipeline, fault, label, score]:    *)
(* whether load_model obtained the pipeline, whether the pipeline call     *)
(* raises, and the label and score (hundredths) of pipeline(text)[0].      *)
(***************************************************************************)
toxic_words == <<"hate", "stupid", "idiot", "kill", "die", "death">>

\* the words of toxic_words that occur in text.lower()
ToxicWordsIn(text) ==
    CASE text = "I HATE you" -> {"hate"}
      [] text = "stupid idiot" -> {"stupid", "idiot"}
      [] text = "die, I hate this stupid idiot" -> {"die", "hate", "stupid", "idiot"}
      [] OTHER -> {}

_rule_based_toxicity(text) ==
    LET toxic_count ==
            Cardinality({i \in DOMAIN toxic_words : toxic_words[i] \in ToxicWordsIn(text)})
        toxicity_score == Min(toxic_count * 30, 100)
    IN  [toxicity_score |-> toxicity_score, is_toxic |-> toxicity_score > 50]

analyze_toxicity(text, raw) ==
    IF text = "" THEN [toxicity_score |-> 0, is_toxic |-> FALSE]
    ELSE IF raw.pipeline
         THEN IF raw.fault THEN [toxicity_score |-> 0, is_toxic |-> FALSE]
              ELSE IF raw.label = "TOXIC"
                   THEN [toxicity_score |-> raw.score, is_toxic |-> raw.score > 50]
                   ELSE [toxicity_score |-> 100 - raw.score, is_toxic |-> FALSE]
         ELSE _rule_based_toxicity(text)

(***************************************************************************)
(* MultiModelSentimentAnalyzer                                             *)
(***************************************************************************)
\* the pool registered in full whatever the flag
analyzers_all_registered(use_transformers) == <<"vader", "textblob", "roberta">>

\* self.analyzers in registration (dict) order
analyzers(use_transformers) ==
    IF use_transformers THEN <<"vader", "textblob", "roberta">>
    ELSE <<"vader", "textblob">>

Labels == {"positive", "negative", "neutral"}

\* the iteration orders a set of label strings can have (str hashes are
\* salted per process)
HashOrders ==
    { o \in [1..3 -> Labels] : \A i, j \in 1..3 : i # j => o[i] # o[j] }

RECURSIVE SumSeq(_)
SumSeq(s) == IF s = <<>> THEN 0 ELSE Head(s) + SumSeq(Tail(s))

Count(s, x) == Cardinality({i \in DOMAIN s : s[i] = x})

\* max(set(sentiment_labels), key=sentiment_labels.count) when the set
\* iterates in `order`: the first label of the highest count
MostFrequentLabel(sentiment_labels, order) ==
    LET i == CHOOSE i \in 1..3 :
                 /\ Count(sentiment_labels, order[i]) > 0
                 /\ \A j \in 1..3 :
                        Count(sentiment_labels, order[j]) <= Count(sentiment_labels, order[i])
                 /\ \A j \in 1..(i - 1) :
                        Count(sentiment_labels, order[j]) < Count(sentiment_labels, order[i])
    IN  order[i]

\* the verdicts of the scorers that support the language, in pool order;
\* a scorer that raised contributes nothing
RECURSIVE Contributions(_, _, _, _)
Contributions(names, text, language, raw) ==
    IF names = <<>> THEN <<>>
    ELSE LET name == Head(names)
             rest == Contributions(Tail(names), text, language, raw)
         IN  IF ~is_language_supported(name, language) THEN rest
             ELSE LET r == analyze_sentiment(name, text, raw)
                  IN  IF r.raised THEN rest
                      ELSE <<[name |-> name, verdict |-> r.verdict]>> \o rest

\* a dict without keys
EmptyDict == <<>>

\* dict.get(key): an Optional
Get(d, key) == IF key \in DOMAIN d THEN Some(d[key]) ELSE None

\* np.mean as an exact fraction (num / den hundredths)
Mean(s) == [num |-> SumSeq(s), den |-> Len(s)]

\* the sample variance (ddof = 1) in place of the population variance
SampleVariance(s) ==
    [num |-> Len(s) * SumSeq([i \in DOMAIN s |-> s[i] * s[i]]) - SumSeq(s) * SumSeq(s),
     den |-> Len(s) * (Len(s) - 1)]

\* np.std squared, as an exact fraction (num / den hundredths squared)
Variance(s) ==
    [num |-> Len(s) * SumSeq([i \in DOMAIN s |-> s[i] * s[i]]) - SumSeq(s) * SumSeq(s),
     den |-> Len(s) * Len(s)]

\* the largest r with r * r <= n, for n up to 100 * 100
Isqrt(n) == CHOOSE r \in 0..100 : r * r <= n /\ n < (r + 1) * (r + 1)

\* np.std in hundredths, rounded down; the scores lie in [-1, 1], so it is
\* at most 1
Std(s) ==
    LET v == Variance(s)
    IN  IF v.num >= 10000 * v.den THEN 100 ELSE Isqrt(v.num \div v.den)

EnsembleOf(sentiment_scores_, sentiment_labels, order) ==
    IF sentiment_scores_ = <<>> THEN EmptyDict
    ELSE [score |-> Mean(sentiment_scores_),
          label |-> MostFrequentLabel(sentiment_labels, order),
          std_squared |-> Variance(sentiment_scores_),
          confidence |-> 100 - Min(Std(sentiment_scores_), 100),
          model_agreement |-> Cardinality(Range(sentiment_labels)) = 1]

_empty_result ==
    [text |-> "", language |-> "unknown", sentiment_results |-> <<>>,
     toxicity_results |-> EmptyDict,
     ensemble_sentiment |-> [score |-> [num |-> 0, den |-> 1],
                             label |-> "neutral",
                             confidence |-> 0]]

analyze_text(text, language, use_transformers, raw, order) ==
    IF text = "" THEN _empty_result
    ELSE LET contributions ==
                 Contributions(analyzers(use_transformers), text, language, raw)
             scores == [i \in DOMAIN contributions |-> contributions[i].verdict.score]
             labels == [i \in DOMAIN contributions |-> contributions[i].verdict.label]
         IN  [text |-> text, language |-> language,
              sentiment_results |-> contributions,
              ensemble_sentiment |-> EnsembleOf(scores, labels, order),
              \* self.toxicity_analyzer exists only in the full pool
              toxicity_results |-> IF use_transformers
                                   THEN analyze_toxicity(text, raw.toxicity)
                                   ELSE EmptyDict]

(***************************************************************************)
(* anonymize_participants                                                  *)
(***************************************************************************)
\* the labels of the model, in the order sorted() puts them (code points)
CodePointOrder ==
    <<"Ann", "Group Notification", "Jane", "John", "System", "User_01", "Zoe">>

Rank(l) == CHOOSE i \in DOMAIN CodePointOrder : CodePointOrder[i] = l

\* str.lower() on a label
Lower(l) ==
    CASE l = "System"             -> "system"
      [] l = "Group Notification" -> "group notification"
      [] l = "Ann"                -> "ann"
      [] l = "Jane"               -> "jane"
      [] l = "John"               -> "john"
      [] l = "User_01"            -> "user_01"
      [] l = "Zoe"                -> "zoe"
      [] OTHER                    -> l

\* sorted(set)
RECURSIVE Sorted(_)
Sorted(S) ==
    IF S = {} THEN <<>>
    ELSE LET m == CHOOSE x \in S : \A y \in S : Rank(x) <= Rank(y)
         IN  <<m>> \o Sorted(S \ {m})

IndexOf(s, x) == CHOOSE i \in DOMAIN s : s[i] = x

\* f"{n:02d}"
Fmt02d(n) == IF n < 10 THEN "0" \o ToString(n) ELSE ToString(n)

IsReserved(participant) == Lower(participant) \in {"system", "group notification"}

\* numbering in the order of the list, without sorting
anonymize_in_list_order(plist) ==
    [participant \in Range(plist) |->
        IF IsReserved(participant) THEN participant
        ELSE "User_" \o Fmt02d(CHOOSE i \in DOMAIN plist :
                                   /\ plist[i] = participant
                                   /\ \A j \in 1..(i - 1) : plist[j] # participant)]

\* the dict returned; its insertion order is Sorted(DOMAIN of it)
anonymize_participants(plist) ==
    LET order == Sorted(Range(plist))
    IN  [participant \in Range(plist) |->
            IF IsReserved(participant) THEN participant
            ELSE "User_" \o Fmt02d(IndexOf(order, participant))]

(***************************************************************************)
(* Harness for anonymize_participants: two lists of labels go in, the two  *)
(* mappings come out.                                                      *)
(***************************************************************************)
LabelLists == UNION {[1..n -> Range(CodePointOrder)] : n \in 0..MaxLabels}

AnonIdle == [stage |-> "idle", in1 |-> <<>>, in2 |-> <<>>, out1 |-> <<>>, out2 |-> <<>>]

AnonInit ==
    \E l1, l2 \in LabelLists :
        /\ Range(l1) = Range(l2)
        /\ anon = [stage |-> "input", in1 |-> l1, in2 |-> l2, out1 |-> <<>>, out2 |-> <<>>]

Anonymize ==
    /\ anon.stage = "input"
    /\ anon' = [anon EXCEPT !.stage = "done",
                            !.out1 = anonymize_participants(anon.in1),
                            !.out2 = anonymize_participants(anon.in2)]

(***************************************************************************)
(* Harness for analyze_text: a text, its language tag, the pool, the       *)
(* libraries' answers and the process's set order go in, the result comes  *)
(* out.                                                                    *)
(***************************************************************************)
VaderAnswers ==
    {[load_error |-> TRUE, fault |-> FALSE, compound |-> 0],
     [load_error |-> FALSE, fault |-> TRUE, compound |-> 0]}
        \cup {[load_error |-> FALSE, fault |-> FALSE, compound |-> c] :
                 c \in {-60, -7, 0, 4, 5, 7, 10, 60}}

TextBlobAnswers ==
    {[fault |-> TRUE, polarity |-> 0, subjectivity |-> 0]}
        \cup {[fault |-> FALSE, polarity |-> q, subjectivity |-> 50] :
                 q \in {-60, -11, -10, 0, 10, 11, 60}}

Probabilities(neg, neu, pos) ==
    << [label |-> "negative", score |-> neg],
       [label |-> "neutral", score |-> neu],
       [label |-> "positive", score |-> pos] >>

RobertaAnswers ==
    {[load_error |-> TRUE, fault |-> FALSE, results |-> <<>>],
     [load_error |-> FALSE, fault |-> TRUE, results |-> <<>>]}
        \cup {[load_error |-> FALSE, fault |-> FALSE, results |-> r] :
                 r \in {Probabilities(90, 7, 3), Probabilities(20, 60, 20),
                        Probabilities(33, 33, 34), Probabilities(2, 8, 90)}}

\* what the toxicity pipeline answers: label and score of its first result
ToxicityAnswers ==
    {[pipeline |-> FALSE, fault |-> FALSE, label |-> "", score |-> 0],
     [pipeline |-> TRUE, fault |-> TRUE, label |-> "", score |-> 0]}
        \cup {[pipeline |-> TRUE, fault |-> FALSE, label |-> l, score |-> c] :
                 l \in {"TOXIC", "toxic", "NON_TOXIC"},
                 c \in {0, 3, 20, 50, 51, 97, 100}}

FusionIdle == [stage |-> "idle"]

FusionInit ==
    \E text \in {"This is awesome!", " ", ""},
       language \in {"en", "hinglish", "english", "unknown"},
       use_transformers \in BOOLEAN,
       v \in VaderAnswers, t \in TextBlobAnswers, r \in RobertaAnswers,
       x \in {a \in ToxicityAnswers : ~a.pipeline \/ (a.label = "TOXIC" /\ a.score = 97)},
       order \in HashOrders :
        fusion = [stage |-> "input", text |-> text, language |-> language,
                  use_transformers |-> use_transformers,
                  raw |-> [vader |-> v, textblob |-> t, roberta |-> r, toxicity |-> x],
                  order |-> order]

AnalyzeText ==
    /\ fusion.stage = "input"
    /\ fusion' = [stage |-> "done", text |-> fusion.text, language |-> fusion.language,
                  use_transformers |-> fusion.use_transformers,
                  raw |-> fusion.raw, order |-> fusion.order,
                  result |-> analyze_text(fusion.text, fusion.language,
                                          fusion.use_transformers, fusion.raw,
                                          fusion.order)]

\* the same call made again in another process, whose sets of strings
\* iterate in an order of their own
AnalyzeTextAgain ==
    /\ fusion.stage = "done"
    /\ \E order2 \in HashOrders :
           fusion' = [stage |-> "again", text |-> fusion.text,
                      language |-> fusion.language,
                      use_transformers |-> fusion.use_transformers,
                      raw |-> fusion.raw, order |-> fusion.order,
                      result |-> fusion.result,
                      order2 |-> order2,
                      result2 |-> analyze_text(fusion.text, fusion.language,
                                               fusion.use_transformers, fusion.raw,
                                               order2)]

(***************************************************************************)
(* Harness for analyze_toxicity: a text and the pipeline's answer go in,   *)
(* the result comes out.                                                   *)
(***************************************************************************)
ToxicityTexts ==
    {"", "This is awesome!", "I HATE you", "stupid idiot", "die, I hate this stupid idiot"}

ToxicityIdle == [stage |-> "idle"]

ToxicityInit ==
    \E text \in ToxicityTexts, raw \in ToxicityAnswers :
        toxicity = [stage |-> "input", text |-> text, raw |-> raw]

AnalyzeToxicity ==
    /\ toxicity.stage = "input"
    /\ toxicity' = [stage |-> "done", text |-> toxicity.text, raw |-> toxicity.raw,
                    result |-> analyze_toxicity(toxicity.text, toxicity.raw)]

(***************************************************************************)
(* Uploads: ChatAnalysisCreateSerializer.create and the view's             *)
(* _process_chat_sync, each storing a ChatAnalysis row for a user's file.  *)
(***************************************************************************)
UploadContents ==
    {"12/25/2023, 10:30 - John: This is awesome!\n",
     "12/25/2023, 10:30 - John: This is awesome!",
     "12/25/2023, 10:31 - Jane: So happy today\n"}

Users == {"alice", "bob"}

\* hashlib.sha256(content.encode('utf-8')).hexdigest()
calculate_file_hash(content) ==
    CASE content = "12/25/2023, 10:30 - John: This is awesome!\n" ->
           "ad937b77ea1e66264486c2b6b8f943b654d4ebb0ff49f39f1ab4aca667298bd7"
      [] content = "12/25/2023, 10:30 - John: This is awesome!" ->
           "7cd17289b40baf3ff6b9042cc0cc4693fdea66d5a0ae547ec0053a3f0312b436"
      [] content = "12/25/2023, 10:31 - Jane: So happy today\n" ->
           "a8d5ef7f519fc034729e8b2fb3b08c250724ebf744a2df8bde75bcd3e4b096cd"

UploadsIdle == [rows |-> <<>>, response |-> "none"]

\* the row stored, with the hash preprocess computes for the same content
\* (preprocessing.py 265) next to the hash kept in the row
ChatAnalysisRow(user, content, file_hash, anonymize_) ==
    [user |-> user,
     file_content |-> content,
     file_hash |-> file_hash,
     anonymize_participants |-> anonymize_,
     summary_file_hash |-> calculate_file_hash(content)]

\* serializers.py 38-73
SerializerCreate ==
    /\ Len(uploads.rows) < MaxUploads
    /\ \E user \in Users, content \in UploadContents, anonymize_ \in BOOLEAN :
           LET file_hash == calculate_file_hash(content)
               existing_analysis ==
                   {i \in DOMAIN uploads.rows :
                        /\ uploads.rows[i].user = user
                        /\ uploads.rows[i].file_hash = file_hash}
           IN  IF existing_analysis # {}
               THEN uploads' = [uploads EXCEPT !.response = "ValidationError"]
               ELSE uploads' = [rows |-> Append(uploads.rows,
                                                ChatAnalysisRow(user, content,
                                                                file_hash, anonymize_)),
                                response |-> "created"]
    /\ UNCHANGED <<pipeline_vars, anon, fusion, toxicity, aggregate, batches, pool, loading, task, detect, stamps, moods, features>>

\* views.py 48-89: create never calls serializer.save(); the row is made by
\* _process_chat_sync
ViewCreate ==
    /\ Len(uploads.rows) < MaxUploads
    /\ \E user \in Users, content \in UploadContents, anonymize_ \in BOOLEAN :
           uploads' = [rows |-> Append(uploads.rows,
                                       ChatAnalysisRow(user, content,
                                                       "demo_hash", anonymize_)),
                       response |-> "created"]
    /\ UNCHANGED <<pipeline_vars, anon, fusion, toxicity, aggregate, batches, pool, loading, task, detect, stamps, moods, features>>

(***************************************************************************)
(* preprocess: one pass of the loop body, and the part after the loop.     *)
(***************************************************************************)
\* the row appended for one (chunk, timestamp) pair, or None when the pair
\* is skipped
ProcessPair(message_text, date_str) ==
    LET timestamp == parse_datetime(date_str)
        um == extract_user_and_message(message_text)
        message_content == um.message
        message_type == message_type_of(message_content)
        username == IF message_type = "system" THEN "System" ELSE um.username
    IN  IF timestamp = None THEN None
        ELSE IF Strip(message_content) = <<>> THEN None
        ELSE Some([timestamp |-> timestamp[1],
                   username |-> username,
                   message_type |-> message_type,
                   original_text |-> message_content,
                   cleaned_text |-> clean_text_for_analysis(message_content),
                   language |-> IF message_type = "text"
                                THEN detect_language(message_content)
                                ELSE "unknown",
                   hour |-> timestamp[1].hour])

\* the dict returned from the except branch
PreprocessFailure(error) ==
    [success |-> FALSE, error |-> Some(error), dataframe |-> None, summary |-> None]

\* the part after the loop without the df.empty test
PreprocessReturnUnchecked(rows, participants_, plist, anonymize_, fmt) ==
    LET participant_mapping ==
            IF anonymize_ THEN anonymize_participants(plist) ELSE EmptyDict
        df == [i \in DOMAIN rows |->
                  [anonymized_username |->
                       IF anonymize_ THEN participant_mapping[rows[i].username]
                       ELSE rows[i].username] @@ rows[i]]
    IN  [success |-> TRUE,
         error |-> None,
         dataframe |-> Some(df),
         summary |-> Some([total_messages |-> Len(df),
                           total_participants |-> Cardinality(participants_),
                           format_type |-> fmt,
                           participant_mapping |-> participant_mapping])]

\* lines 334-377: the DataFrame, the mapping and the summary, or the failure
PreprocessReturn(rows, participants_, plist, anonymize_, fmt) ==
    IF rows = <<>>
    THEN PreprocessFailure("No valid messages found after preprocessing")
    ELSE LET participant_mapping ==
                 IF anonymize_ THEN anonymize_participants(plist) ELSE EmptyDict
             df == [i \in DOMAIN rows |->
                       [anonymized_username |->
                            IF anonymize_ THEN participant_mapping[rows[i].username]
                            ELSE rows[i].username] @@ rows[i]]
         IN  [success |-> TRUE,
              error |-> None,
              dataframe |-> Some(df),
              summary |-> Some([total_messages |-> Len(df),
                                total_participants |-> Cardinality(participants_),
                                format_type |-> fmt,
                                participant_mapping |-> participant_mapping])]

(***************************************************************************)
(* process_whatsapp_chat: helpers.                                         *)
(***************************************************************************)
batch_size == 100

max_retries == 3

\* what the libraries answer for the cleaned texts of the model
LibraryAnswers(text) ==
    CASE text = "This is awesome!" ->
           [vader |-> [load_error |-> FALSE, fault |-> FALSE, compound |-> 66],
            textblob |-> [fault |-> FALSE, polarity |-> 100, subjectivity |-> 100],
            roberta |-> [load_error |-> FALSE, fault |-> FALSE,
                         results |-> Probabilities(1, 2, 97)],
            toxicity |-> [pipeline |-> TRUE, fault |-> FALSE, label |-> "toxic", score |-> 1]]
      [] text = "So happy today" ->
           [vader |-> [load_error |-> FALSE, fault |-> FALSE, compound |-> 61],
            textblob |-> [fault |-> FALSE, polarity |-> 80, subjectivity |-> 100],
            roberta |-> [load_error |-> FALSE, fault |-> FALSE,
                         results |-> Probabilities(1, 3, 96)],
            toxicity |-> [pipeline |-> TRUE, fault |-> FALSE, label |-> "toxic", score |-> 1]]
      [] text = "This is awful" ->
           [vader |-> [load_error |-> FALSE, fault |-> FALSE, compound |-> -46],
            textblob |-> [fault |-> FALSE, polarity |-> -100, subjectivity |-> 100],
            roberta |-> [load_error |-> FALSE, fault |-> FALSE,
                         results |-> Probabilities(95, 4, 1)],
            toxicity |-> [pipeline |-> TRUE, fault |-> FALSE, label |-> "toxic", score |-> 2]]
      [] OTHER ->
           [vader |-> [load_error |-> FALSE, fault |-> FALSE, compound |-> 0],
            textblob |-> [fault |-> FALSE, polarity |-> 0, subjectivity |-> 0],
            roberta |-> [load_error |-> FALSE, fault |-> FALSE,
                         results |-> Probabilities(10, 80, 10)],
            toxicity |-> [pipeline |-> TRUE, fault |-> FALSE, label |-> "toxic", score |-> 1]]

\* lines 59-76: participants_map, keyed by username
RECURSIVE CreateParticipants(_, _, _, _)
CreateParticipants(names, mapping, df, created) ==
    IF names = <<>> THEN created
    ELSE LET username == Head(names)
         IN  IF username = "System"
             THEN CreateParticipants(Tail(names), mapping, df, created)
             ELSE CreateParticipants(Tail(names), mapping, df,
                      created @@ (username :>
                          [original_name |-> username,
                           anonymized_name |-> mapping[username],
                           participant_id |->
                               "user_" \o ToString(Cardinality(DOMAIN created) + 1),
                           message_count |->
                               Cardinality({i \in DOMAIN df : df[i].username = username})]))

\* lines 96-101: the analysis of one row
AnalyzeRow(row, use_transformers, order) ==
    IF StripStr(row.cleaned_text) # ""
    THEN analyze_text(row.cleaned_text, row.language, use_transformers,
                      LibraryAnswers(row.cleaned_text), order)
    ELSE _empty_result

\* lines 115-137: the ChatMessage of one row
MessageOf(row, analysis_result) ==
    LET ensemble_sentiment == analysis_result.ensemble_sentiment
    IN  [participant |-> row.username,
         message_type |-> row.message_type,
         original_text |-> row.original_text,
         cleaned_text |-> row.cleaned_text,
         timestamp |-> row.timestamp,
         sentiment_score |-> Get(ensemble_sentiment, "score"),
         sentiment_label |-> Get(ensemble_sentiment, "label"),
         language_detected |-> row.language]

\* score > c hundredths, score < c hundredths, for a score held as a fraction
ScoreGT(score, c) == score.num > c * score.den

ScoreLT(score, c) == score.num < c * score.den

\* sum(scores) / len(scores) for fractions whose denominators divide 6
MeanOfScores(scores) ==
    [num |-> SumSeq([i \in DOMAIN scores |-> scores[i].num * (6 \div scores[i].den)]),
     den |-> 6 * Len(scores)]

\* the counts taken by sign, without the 0.1 margin
OverallLabelBySign(scores) ==
    LET positive_count == Cardinality({i \in DOMAIN scores : ScoreGT(scores[i], 0)})
        negative_count == Cardinality({i \in DOMAIN scores : ScoreLT(scores[i], 0)})
    IN  IF positive_count > negative_count THEN "positive"
        ELSE IF negative_count > positive_count THEN "negative"
        ELSE "neutral"

\* lines 165-177
OverallLabel(scores) ==
    LET positive_count == Cardinality({i \in DOMAIN scores : ScoreGT(scores[i], 10)})
        negative_count == Cardinality({i \in DOMAIN scores : ScoreLT(scores[i], -10)})
    IN  IF positive_count > negative_count THEN "positive"
        ELSE IF negative_count > positive_count THEN "negative"
        ELSE "neutral"

(***************************************************************************)
(* The transcripts the pipeline is run on.                                 *)
(***************************************************************************)
Chunks ==
    [ awesome |-> <<"John", SEP, "This is awesome! http://x.co", NL>>,
      happy   |-> <<"Jane", SEP, "So happy today", NL>>,
      awful   |-> <<"Zoe", SEP, "This is awful", NL>>,
      empty   |-> <<"John", SEP, NL>>,
      media   |-> <<"Jane", SEP, "<Media omitted>", NL>>,
      sticker |-> <<"~Ann", SEP, "sticker omitted", NL>>,
      left    |-> <<"Bob left", NL>> ]

AndroidLines ==
    {<<"12/25/2023, 10:30 - ">> \o Chunks[c] :
         c \in {"awesome", "awful", "empty", "media", "sticker", "left"}}
        \cup {<<"12/25/2023, 10:31 - ">> \o Chunks[c] : c \in {"happy"}}
        \cup {<<"99/99/2023, 10:32 - ">> \o Chunks[c] : c \in {"happy", "empty"}}

IosLines ==
    {<<"[12/25/2023, 10:33:05] ">> \o Chunks[c] : c \in {"awesome", "happy"}}

Preambles == {<<>>, <<Filler, NL>>}

RECURSIVE Flatten(_)
Flatten(ls) == IF ls = <<>> THEN <<>> ELSE Head(ls) \o Flatten(Tail(ls))

LinesUpTo(L, n) == UNION {[1..k -> L] : k \in 0..n}

Transcripts ==
    {pre \o Flatten(ls) :
        pre \in Preambles,
        ls \in LinesUpTo(AndroidLines, MaxLines) \cup LinesUpTo(IosLines, MaxLines)}

ListsOf(S) ==
    {p \in [1..Cardinality(S) -> S] : \A i, j \in DOMAIN p : i # j => p[i] # p[j]}

(***************************************************************************)
(* The pipeline: process_whatsapp_chat, with preprocess unfolded into its  *)
(* steps.                                                                  *)
(***************************************************************************)
NewChatAnalysis ==
    [status |-> "pending", total_messages |-> 0, total_participants |-> 0,
     overall_sentiment_score |-> None, overall_sentiment_label |-> "",
     error_message |-> ""]

(***************************************************************************)
(* Harness for the overall statistics of process_whatsapp_chat: the        *)
(* ensemble scores of the messages go in (None where the ensemble has no   *)
(* score), the conversation's score and label come out.                    *)
(***************************************************************************)
MessageScores ==
    {None} \cup {Some([num |-> n, den |-> 1]) : n \in {-60, -10, 0, 10, 60}}
           \cup {Some([num |-> -21, den |-> 2]), Some([num |-> 31, den |-> 3])}

AggregateIdle == [stage |-> "idle"]

AggregateInit ==
    \E n \in 0..MaxMessages :
        \E message_scores \in [1..n -> MessageScores] :
            aggregate = [stage |-> "input", message_scores |-> message_scores]

\* tasks.py 141-142 and 165-177
AggregateScores ==
    /\ aggregate.stage = "input"
    /\ LET scored == SelectSeq(aggregate.message_scores, LAMBDA score : score # None)
           sentiment_scores_ == [k \in DOMAIN scored |-> scored[k][1]]
       IN  aggregate' =
               [stage |-> "done", message_scores |-> aggregate.message_scores,
                overall_sentiment_score |->
                    IF sentiment_scores_ # <<>>
                    THEN Some(MeanOfScores(sentiment_scores_))
                    ELSE NewChatAnalysis.overall_sentiment_score,
                overall_sentiment_label |->
                    IF sentiment_scores_ # <<>>
                    THEN OverallLabel(sentiment_scores_)
                    ELSE NewChatAnalysis.overall_sentiment_label]

(***************************************************************************)
(* Harness for the batch loop of process_whatsapp_chat (tasks.py 78-162).  *)
(* The DataFrame is held as consecutive blocks of rows; the rows of a      *)
(* block are all of a speaker in participants_map, or all of 'System'.     *)
(***************************************************************************)
Max(a, b) == IF a >= b THEN a ELSE b

BlockSizes == {1, batch_size - 1, batch_size, batch_size + 1}

RowBlocks == [rows : BlockSizes, in_participants_map : BOOLEAN]

\* len(df)
RECURSIVE RowCount(_)
RowCount(df) == IF df = <<>> THEN 0 ELSE Head(df).rows + RowCount(Tail(df))

\* df.iloc[lo:hi], then 'if row['username'] in participants_map': the number
\* of rows kept
RECURSIVE KeptInSlice(_, _, _, _)
KeptInSlice(df, first, lo, hi) ==
    IF df = <<>> THEN 0
    ELSE LET last == first + Head(df).rows
             overlap == Max(0, Min(hi, last) - Max(lo, first))
         IN  (IF Head(df).in_participants_map THEN overlap ELSE 0)
                 + KeptInSlice(Tail(df), last, lo, hi)

\* self.update_state(state='PROGRESS', meta={'current': ..., 'total': ...})
\* with the loop index reported in place of the count of processed messages
ProgressByLoopIndex(processed_messages_, i, total_messages) ==
    [current |-> i + batch_size, total |-> total_messages]

\* self.update_state(state='PROGRESS', meta={'current': ..., 'total': ...})
ProgressMeta(processed_messages_, i, total_messages) ==
    [current |-> processed_messages_, total |-> total_messages]

BatchesIdle == [stage |-> "idle"]

BatchesInit ==
    \E n \in 1..MaxBlocks :
        \E df \in [1..n -> RowBlocks] :
            batches = [stage |-> "loop", df |-> df, i |-> 0,
                       processed_messages |-> 0, reports |-> <<>>]

\* tasks.py 87-162: one pass of the loop over range(0, total_messages, batch_size)
ProcessBatch ==
    /\ batches.stage = "loop"
    /\ LET total_messages == RowCount(batches.df)
           i == batches.i
           messages_to_create == KeptInSlice(batches.df, 0, i, i + batch_size)
           processed == batches.processed_messages + messages_to_create
       IN  batches' = [batches EXCEPT
                          !.processed_messages = processed,
                          !.reports = Append(@, ProgressMeta(processed, i, total_messages)),
                          !.i = i + batch_size,
                          !.stage = IF i + batch_size < total_messages
                                    THEN "loop" ELSE "done"]

\* an exception raised inside a pass (analyze_text, bulk_create) leaves the
\* loop before the pass reports
BatchRaises ==
    /\ batches.stage = "loop"
    /\ batches' = [batches EXCEPT !.stage = "raised"]

(***************************************************************************)
(* Harness for analyze_batch (analyzers.py 546-566).  Every text is        *)
(* submitted to a ThreadPoolExecutor; its workers take the submitted calls *)
(* in submission order, at most max_workers at a time; the caller appends  *)
(* the results as as_completed yields the futures: those already finished  *)
(* when it is entered in the iteration order of a set, the others in the   *)
(* order they finish.                                                      *)
(***************************************************************************)
BatchTexts == {"This is awesome!", "This is awful", " "}

WorkerLimits == {1, 2, 4}

PoolIdle == [phase |-> "idle"]

PoolInit ==
    \E n \in 0..MaxTexts :
        \E texts \in [1..n -> BatchTexts], max_workers \in WorkerLimits,
           order \in HashOrders :
            pool = [phase |-> "submitted", texts |-> texts, max_workers |-> max_workers,
                    order |-> order,
                    status |-> [i \in 1..n |-> "queued"],
                    outcome |-> [i \in 1..n |-> None],
                    finish_order |-> <<>>, finished_at_entry |-> {},
                    yielded |-> <<>>, results |-> <<>>]

\* self.analyze_text(text, language) as a worker runs it
FutureResult(text, order) ==
    analyze_text(text, "en", FALSE, LibraryAnswers(text), order)

\* a free worker takes the oldest submitted call
WorkerTakes(i) ==
    /\ pool.phase \in {"submitted", "collecting"}
    /\ pool.status[i] = "queued"
    /\ \A j \in 1..(i - 1) : pool.status[j] # "queued"
    /\ Cardinality({j \in DOMAIN pool.status : pool.status[j] = "running"})
           < pool.max_workers
    /\ pool' = [pool EXCEPT !.status[i] = "running"]

\* the call returns and its future is finished
WorkerFinishes(i) ==
    /\ pool.phase \in {"submitted", "collecting"}
    /\ pool.status[i] = "running"
    /\ pool' = [pool EXCEPT
                   !.status[i] = "finished",
                   !.outcome[i] = Some(FutureResult(pool.texts[i], pool.order)),
                   !.finish_order = Append(@, i)]

\* line 558: as_completed is entered
EnterAsCompleted ==
    /\ pool.phase = "submitted"
    /\ pool' = [pool EXCEPT
                   !.phase = "collecting",
                   !.finished_at_entry =
                       {i \in DOMAIN pool.status : pool.status[i] = "finished"}]

\* the futures as_completed can yield next
NextYields ==
    LET done == Range(pool.yielded)
        early == pool.finished_at_entry \ done
        late == SelectSeq(pool.finish_order,
                          LAMBDA i : i \notin pool.finished_at_entry /\ i \notin done)
    IN  IF early # {} THEN early
        ELSE IF late # <<>> THEN {Head(late)}
        ELSE {}

\* lines 558-564: one pass of the loop over as_completed
CollectResult(i) ==
    /\ pool.phase = "collecting"
    /\ i \in NextYields
    /\ pool' = [pool EXCEPT
                   !.yielded = Append(@, i),
                   !.results = Append(@, pool.outcome[i][1])]

\* line 566
ReturnResults ==
    /\ pool.phase = "collecting"
    /\ Len(pool.yielded) = Len(pool.texts)
    /\ pool' = [pool EXCEPT !.phase = "returned"]

(***************************************************************************)
(* Harness for model loading: load_models, analyze_text and analyze_batch  *)
(* called on one MultiModelSentimentAnalyzer, with the scorers' is_loaded  *)
(* flags and the runs of their load_model.  A scorer in `broken` is one    *)
(* whose load_model raises.                                                *)
(***************************************************************************)
Scorers == Range(analyzers(TRUE))

\* TextBlobAnalyzer.load_model only sets the flag
CanFailToLoad == {"vader", "roberta"}

LoadingIdle == [stage |-> "idle"]

LoadingInit ==
    \E broken \in SUBSET CanFailToLoad :
        loading = [stage |-> "ready", broken |-> broken,
                   is_loaded |-> [name \in Scorers |-> FALSE],
                   load_runs |-> [name \in Scorers |-> 0],
                   calls |-> 0, workers |-> <<>>, loaded_in_worker |-> FALSE]

\* load_model of one scorer: the run is counted; is_loaded is set unless
\* the load raises
load_model(st, name) ==
    [st EXCEPT !.load_runs[name] = @ + 1,
               !.is_loaded[name] = IF name \in st.broken THEN @ ELSE TRUE]

\* load_models, lines 454-459: every scorer's load_model, whatever its flag
RECURSIVE LoadAll(_, _)
LoadAll(st, names) ==
    IF names = <<>> THEN st
    ELSE LoadAll(load_model(st, Head(names)), Tail(names))

\* analyze_text, lines 497-507, as far as loading goes: a scorer that is not
\* loaded runs load_model first (lines 95-96, 148-149, 215-216)
RECURSIVE LoadMissing(_, _)
LoadMissing(st, names) ==
    IF names = <<>> THEN st
    ELSE LoadMissing(IF st.is_loaded[Head(names)] THEN st
                     ELSE load_model(st, Head(names)),
                     Tail(names))

CallLoadModels ==
    /\ loading.stage = "ready" /\ loading.workers = <<>>
    /\ loading.calls < MaxCalls
    /\ loading' = [LoadAll(loading, analyzers(TRUE)) EXCEPT !.calls = @ + 1]

CallAnalyzeText ==
    /\ loading.stage = "ready" /\ loading.workers = <<>>
    /\ loading.calls < MaxCalls
    /\ loading' = [LoadMissing(loading, analyzers(TRUE)) EXCEPT !.calls = @ + 1]

\* analyze_batch, lines 552-556: the calls are handed to the workers
CallAnalyzeBatch ==
    /\ loading.stage = "ready" /\ loading.workers = <<>>
    /\ loading.calls < MaxCalls
    /\ \E n \in 1..MaxWorkers :
           loading' = [loading EXCEPT
                          !.calls = @ + 1,
                          !.workers = [w \in 1..n |-> [k |-> 1, at |-> "check"]]]

\* a worker inside analyze_sentiment of its k-th scorer: the test of
\* is_loaded, then load_model, then the scoring
WorkerChecks(w) ==
    /\ loading.workers[w].at = "check"
    /\ loading.workers[w].k <= Len(analyzers(TRUE))
    /\ loading' = [loading EXCEPT
                      !.workers[w].at =
                          IF loading.is_loaded[analyzers(TRUE)[loading.workers[w].k]]
                          THEN "score" ELSE "load"]

WorkerLoads(w) ==
    /\ loading.workers[w].at = "load"
    /\ LET name == analyzers(TRUE)[loading.workers[w].k]
       IN  loading' = [load_model(loading, name) EXCEPT
                          !.loaded_in_worker = TRUE,
                          \* the exception of a failed load is caught at line 506
                          !.workers[w] = IF name \in loading.broken
                                         THEN [k |-> @.k + 1, at |-> "check"]
                                         ELSE [k |-> @.k, at |-> "score"]]

WorkerScores(w) ==
    /\ loading.workers[w].at = "score"
    /\ loading' = [loading EXCEPT !.workers[w] = [k |-> @.k + 1, at |-> "check"]]

\* line 566: every call has returned
BatchReturns ==
    /\ loading.stage = "ready" /\ loading.workers # <<>>
    /\ \A w \in DOMAIN loading.workers :
           loading.workers[w].k > Len(analyzers(TRUE))
    /\ loading' = [loading EXCEPT !.workers = <<>>]

(***************************************************************************)
(* Harness for the attempts of process_whatsapp_chat (tasks.py 19-256):    *)
(* the rows that stay in the database from one attempt to the next, the    *)
(* except branch and self.retry.  The transcript is reduced to whether     *)
(* preprocess succeeds, the number of speakers in participant_mapping and  *)
(* the number of batches; has_profile says whether the user has a          *)
(* UserProfile row.  A fault is an exception from outside the code         *)
(* (database, broker) raised at some step.                                 *)
(***************************************************************************)
TaskIdle == [at |-> "idle"]

TaskInit ==
    \E preprocess_ok \in BOOLEAN, has_profile \in BOOLEAN,
       speakers \in 1..MaxParticipants, batch_count \in 1..MaxBatches :
        task = [at |-> "queued",
                preprocess_ok |-> preprocess_ok, has_profile |-> has_profile,
                speakers |-> speakers, batch_count |-> batch_count,
                status |-> "pending",
                participant_rows |-> {},
                message_rows |-> [b \in 1..batch_count |-> 0],
                participants_map |-> {}, i |-> 0,
                retries |-> 0, faults |-> 0, faults_after_rows |-> 0,
                profile_updates |-> 0]

\* lines 238-256: the row is marked failed; the task is retried while
\* retries are left, else the exception leaves the task
ExceptBranch(t) ==
    [t EXCEPT !.status = "failed",
              !.at = IF t.retries < max_retries THEN "queued" ELSE "failed",
              !.retries = IF t.retries < max_retries THEN @ + 1 ELSE @]

\* lines 24-36
AttemptStart ==
    /\ task.at = "queued"
    /\ task' = [task EXCEPT !.status = "processing", !.at = "preprocess",
                            !.participants_map = {}, !.i = 0]

\* lines 38-56
AttemptPreprocess ==
    /\ task.at = "preprocess"
    /\ task' = IF task.preprocess_ok
               THEN [task EXCEPT !.at = "participants"]
               ELSE ExceptBranch(task)

\* lines 60-76: one ChatParticipant.objects.create; unique_together
\* ['chat_analysis', 'participant_id'] (models.py 129) makes it raise when
\* the row exists
AttemptCreateParticipant ==
    /\ task.at = "participants"
    /\ LET participant_id == Cardinality(task.participants_map) + 1
       IN  task' =
               IF participant_id \in task.participant_rows
               THEN ExceptBranch(task)
               ELSE [task EXCEPT
                        !.participant_rows = @ \cup {participant_id},
                        !.participants_map = @ \cup {participant_id},
                        !.at = IF participant_id = task.speakers
                               THEN "batches" ELSE "participants"]

\* lines 87-162: one batch, with its bulk_create
AttemptBatch ==
    /\ task.at = "batches"
    /\ task' = [task EXCEPT
                   !.message_rows[task.i + 1] = @ + 1,
                   !.i = @ + 1,
                   !.at = IF task.i + 1 = task.batch_count
                          THEN "statistics" ELSE "batches"]

\* lines 164-220: the statistics, then the row is saved as completed
AttemptComplete ==
    /\ task.at = "statistics"
    /\ task' = [task EXCEPT !.status = "completed", !.at = "profile"]

\* lines 222-236: chat_analysis.user.profile raises when the user has no
\* profile row
AttemptUpdateProfile ==
    /\ task.at = "profile"
    /\ task' = IF task.has_profile
               THEN [task EXCEPT !.profile_updates = @ + 1, !.at = "returned"]
               ELSE ExceptBranch(task)

\* an exception from outside raised at the current step
AttemptFault ==
    /\ task.at \in {"preprocess", "participants", "batches", "statistics"}
    /\ task.faults < MaxFaults
    /\ task' = ExceptBranch([task EXCEPT
                                !.faults = @ + 1,
                                !.faults_after_rows =
                                    IF task.participant_rows # {} THEN @ + 1 ELSE @])

(***************************************************************************)
(* Harness for detect_format: texts whose lines carry the prefixes of      *)
(* either grammar, with or without 1000 characters in front of them.       *)
(***************************************************************************)
DetectTexts ==
    {pre \o Flatten(ls) :
        pre \in Preambles, ls \in LinesUpTo(AndroidLines \cup IosLines, MaxDetectLines)}

DetectIdle == [stage |-> "idle"]

DetectInit == \E text \in DetectTexts : detect = [stage |-> "input", text |-> text]

DetectFormat ==
    /\ detect.stage = "input"
    /\ detect' = [stage |-> "done", text |-> detect.text,
                  format_type |-> detect_format(detect.text)]

(***************************************************************************)
(* Harness for the timestamps of the records: the date strings of a        *)
(* transcript go, one by one, through parse_datetime and its caller        *)
(* (preprocessing.py 283-286), or through the parser of the demo           *)
(* (run_demo.py 93-124).                                                   *)
(***************************************************************************)
DateStrings == DOMAIN TsFields

Parsers == {"preprocess", "run_demo"}

StampsIdle == [stage |-> "idle"]

StampsInit ==
    \E n \in 1..MaxDates :
        \E date_strs \in [1..n -> DateStrings], parser \in Parsers :
            stamps = [stage |-> "loop", parser |-> parser, date_strs |-> date_strs,
                      k |-> 0, kept |-> <<>>]

\* run_demo.py 101 and 104: the strptime formats, in the order tried
DemoFormats ==
    << [dayfirst |-> FALSE, ydigits |-> 4, seconds |-> FALSE],
       [dayfirst |-> TRUE,  ydigits |-> 4, seconds |-> FALSE] >>

\* datetime.now(): a timestamp that is not the record's
Now == [year |-> 2026, month |-> 1, day |-> 1, hour |-> 0, minute |-> 0, second |-> 0]

\* run_demo.py 91-106: the timestamp of a line, None when the line does not
\* match the pattern (a time with seconds, a bracketed prefix)
DemoTimestamp(date_str) ==
    LET f == TsFields[date_str]
    IN  IF f.sec >= 0 THEN None
        ELSE IF Strptime(f, DemoFormats[1]) # None THEN Strptime(f, DemoFormats[1])
        ELSE IF Strptime(f, DemoFormats[2]) # None THEN Strptime(f, DemoFormats[2])
        ELSE Some(Now)

\* preprocessing.py 283-286: the record is skipped when parse_datetime
\* returns None
PreprocessStamp ==
    /\ stamps.stage = "loop" /\ stamps.parser = "preprocess"
    /\ LET date_str == stamps.date_strs[stamps.k + 1]
           timestamp == parse_datetime(<<date_str>>)
       IN  stamps' = [stamps EXCEPT
                         !.k = @ + 1,
                         !.kept = IF timestamp = None THEN @
                                  ELSE Append(@, [date_str |-> date_str,
                                                  timestamp |-> timestamp[1]]),
                         !.stage = IF stamps.k + 1 = Len(stamps.date_strs)
                                   THEN "done" ELSE "loop"]

\* run_demo.py 93-124: one line
DemoStamp ==
    /\ stamps.stage = "loop" /\ stamps.parser = "run_demo"
    /\ LET date_str == stamps.date_strs[stamps.k + 1]
           timestamp == DemoTimestamp(date_str)
       IN  stamps' = [stamps EXCEPT
                         !.k = @ + 1,
                         !.kept = IF timestamp = None THEN @
                                  ELSE Append(@, [date_str |-> date_str,
                                                  timestamp |-> timestamp[1]]),
                         !.stage = IF stamps.k + 1 = Len(stamps.date_strs)
                                   THEN "done" ELSE "loop"]

(***************************************************************************)
(* Harness for the dominant emotions of process_whatsapp_chat (tasks.py    *)
(* 143-144, 179-184, 201-210): the stored messages, each with its          *)
(* participant and its dominant emotion (None when the analysis gave       *)
(* none), go in; the dominant emotion of the conversation and of each      *)
(* participant come out.                                                   *)
(***************************************************************************)
\* EmotionAnalyzer.emotions
emotions == <<"joy", "sadness", "anger", "fear", "surprise", "disgust">>

MoodParticipants == {"user_1", "user_2"}

MoodMessages ==
    [participant : MoodParticipants,
     dominant_emotion : {None} \cup {Some(emotions[i]) : i \in 1..3}]

MoodsIdle == [stage |-> "idle"]

MoodsInit ==
    \E n \in 1..MaxMessages :
        \E stored \in [1..n -> MoodMessages] :
            moods = [stage |-> "input", stored |-> stored]

\* the keys of emotion_counts in insertion order: the emotions in the order
\* of their first occurrence
RECURSIVE FirstOccurrences(_, _)
FirstOccurrences(data, seen) ==
    IF data = <<>> THEN seen
    ELSE FirstOccurrences(Tail(data),
                          IF Head(data) \in Range(seen) THEN seen
                          ELSE Append(seen, Head(data)))

\* max(emotion_counts, key=emotion_counts.get): the first key, in insertion
\* order, of the highest count
MostCommonEmotion(data) ==
    LET keys == FirstOccurrences(data, <<>>)
        i == CHOOSE i \in DOMAIN keys :
                 /\ \A j \in DOMAIN keys : Count(data, keys[j]) <= Count(data, keys[i])
                 /\ \A j \in 1..(i - 1) : Count(data, keys[j]) < Count(data, keys[i])
    IN  keys[i]

\* the dominant emotions that are set, in message order
EmotionsOf(stored) ==
    LET with == SelectSeq(stored, LAMBDA message : message.dominant_emotion # None)
    IN  [k \in DOMAIN with |-> with[k].dominant_emotion[1]]

\* lines 179-184 and 201-210; a dominant_emotion that is not assigned keeps
\* the field's default ''
ComputeDominantEmotions ==
    /\ moods.stage = "input"
    /\ LET emotion_data == EmotionsOf(moods.stored)
           of(p) == EmotionsOf(SelectSeq(moods.stored,
                                         LAMBDA message : message.participant = p))
       IN  moods' = [stage |-> "done", stored |-> moods.stored,
                     dominant_emotion |->
                         IF emotion_data # <<>> THEN MostCommonEmotion(emotion_data)
                         ELSE "",
                     participant_emotion |->
                         [p \in MoodParticipants |->
                             IF of(p) # <<>> THEN MostCommonEmotion(of(p)) ELSE ""]]

(***************************************************************************)
(* Harness for extract_features (preprocessing.py 220-236), as far as      *)
(* caps_ratio goes.  A message is a sequence of characters; the ratio is   *)
(* kept as an exact fraction.                                              *)
(***************************************************************************)
Characters == {"A", "Z", "b", "1", "!", " "}

\* str.isupper() on one character
isupper(c) == c \in {"A", "Z"}

\* 'caps_ratio': sum(1 for c in message if c.isupper()) / len(message)
\*               if message else 0
caps_ratio(message) ==
    IF message # <<>>
    THEN [num |-> Cardinality({i \in DOMAIN message : isupper(message[i])}),
          den |-> Len(message)]
    ELSE [num |-> 0, den |-> 1]

FeaturesIdle == [stage |-> "idle"]

FeaturesInit ==
    \E n \in 0..MaxChars :
        \E message \in [1..n -> Characters] :
            features = [stage |-> "input", message |-> message]

ExtractFeatures ==
    /\ features.stage = "input"
    /\ features' = [stage |-> "done", message |-> features.message,
                    char_count |-> Len(features.message),
                    caps_ratio |-> caps_ratio(features.message)]

PipelineInit ==
    /\ file_content \in Transcripts
    /\ anonymize \in BOOLEAN
    /\ pc = "pending"
    /\ format_type = ""
    /\ messages = <<>>
    /\ dates = <<>>
    /\ idx = 0
    /\ processed_messages = <<>>
    /\ participants = {}
    /\ result = None
    /\ chat_analysis = NewChatAnalysis
    /\ participants_map = EmptyDict
    /\ chat_messages = <<>>
    /\ sentiment_scores = <<>>
    /\ progress = <<>>
    /\ batch_start = 0
    /\ retries = 0

PipelineIdle ==
    /\ file_content = <<>>
    /\ anonymize = TRUE
    /\ pc = "idle"
    /\ format_type = ""
    /\ messages = <<>>
    /\ dates = <<>>
    /\ idx = 0
    /\ processed_messages = <<>>
    /\ participants = {}
    /\ result = None
    /\ chat_analysis = NewChatAnalysis
    /\ participants_map = EmptyDict
    /\ chat_messages = <<>>
    /\ sentiment_scores = <<>>
    /\ progress = <<>>
    /\ batch_start = 0
    /\ retries = 0

\* tasks.py 24-42: the row is marked processing and preprocess is entered
TaskStart ==
    /\ pc = "pending"
    /\ chat_analysis' = [chat_analysis EXCEPT !.status = "processing"]
    /\ pc' = "preprocess"
    /\ UNCHANGED <<file_content, anonymize, format_type, messages, dates, idx,
                   processed_messages, participants, result, participants_map,
                   chat_messages, sentiment_scores, progress, batch_start, retries>>
    /\ UNCHANGED harness_vars

\* preprocessing.py 264-279
PreprocessExtract ==
    /\ pc = "preprocess"
    /\ LET fmt == detect_format(file_content)
           ex == extract_messages_and_dates(file_content, fmt)
       IN  /\ format_type' = fmt
           /\ messages' = ex.messages
           /\ dates' = ex.dates
           /\ idx' = 0
           /\ processed_messages' = <<>>
           /\ participants' = {}
           /\ IF ex.messages = <<>>
              THEN /\ result' = PreprocessFailure("No messages found in the chat file")
                   /\ pc' = "preprocessed"
              ELSE /\ result' = None
                   /\ pc' = "loop"
    /\ UNCHANGED <<file_content, anonymize, chat_analysis, participants_map,
                   chat_messages, sentiment_scores, progress, batch_start, retries>>
    /\ UNCHANGED harness_vars

\* preprocessing.py 281-332: one pass of the loop
PreprocessMessage ==
    /\ pc = "loop"
    /\ idx < Min(Len(messages), Len(dates))
    /\ LET row == ProcessPair(messages[idx + 1], dates[idx + 1])
       IN  IF row = None
           THEN UNCHANGED <<processed_messages, participants>>
           ELSE /\ processed_messages' = Append(processed_messages, row[1])
                /\ participants' = participants \cup {row[1].username}
    /\ idx' = idx + 1
    /\ UNCHANGED <<file_content, anonymize, pc, format_type, messages, dates, result,
                   chat_analysis, participants_map, chat_messages, sentiment_scores,
                   progress, batch_start, retries>>
    /\ UNCHANGED harness_vars

\* preprocessing.py 334-377
PreprocessFinish ==
    /\ pc = "loop"
    /\ idx = Min(Len(messages), Len(dates))
    /\ \E plist \in ListsOf(participants) :
           result' = PreprocessReturn(processed_messages, participants, plist,
                                      anonymize, format_type)
    /\ pc' = "preprocessed"
    /\ UNCHANGED <<file_content, anonymize, format_type, messages, dates, idx,
                   processed_messages, participants, chat_analysis, participants_map,
                   chat_messages, sentiment_scores, progress, batch_start, retries>>
    /\ UNCHANGED harness_vars

\* tasks.py 44-45, 238-256: preprocess failed; the row is marked failed and
\* the task is retried while retries are left
TaskFail ==
    /\ pc = "preprocessed"
    /\ ~result.success
    /\ chat_analysis' = [chat_analysis EXCEPT
                             !.status = "failed",
                             !.error_message = "Preprocessing failed: " \o result.error[1]]
    /\ IF retries < max_retries
       THEN /\ retries' = retries + 1
            /\ pc' = "pending"
       ELSE /\ retries' = retries
            /\ pc' = "failed"
    /\ UNCHANGED <<file_content, anonymize, format_type, messages, dates, idx,
                   processed_messages, participants, result, participants_map,
                   chat_messages, sentiment_scores, progress, batch_start>>
    /\ UNCHANGED harness_vars

\* tasks.py 47-85
TaskCreateParticipants ==
    /\ pc = "preprocessed"
    /\ result.success
    /\ LET df == result.dataframe[1]
           summary == result.summary[1]
           mapping == summary.participant_mapping
       IN  /\ chat_analysis' = [chat_analysis EXCEPT
                                    !.total_messages = summary.total_messages,
                                    !.total_participants = summary.total_participants]
           /\ participants_map' =
                  CreateParticipants(Sorted(DOMAIN mapping), mapping, df, EmptyDict)
    /\ batch_start' = 0
    /\ sentiment_scores' = <<>>
    /\ pc' = "batch"
    /\ UNCHANGED <<file_content, anonymize, format_type, messages, dates, idx,
                   processed_messages, participants, result, chat_messages, progress,
                   retries>>
    /\ UNCHANGED harness_vars

\* tasks.py 87-162: one batch
TaskProcessBatch ==
    /\ pc = "batch"
    /\ batch_start < Len(result.dataframe[1])
    /\ \E use_transformers \in BOOLEAN, order \in HashOrders :
        LET df == result.dataframe[1]
            total_messages == Len(df)
            batch_df == SubSeq(df, batch_start + 1,
                               Min(batch_start + batch_size, total_messages))
            batch_results == [i \in DOMAIN batch_df |->
                                 AnalyzeRow(batch_df[i], use_transformers, order)]
            kept == SelectSeq([i \in DOMAIN batch_df |-> i],
                              LAMBDA i : batch_df[i].username \in DOMAIN participants_map)
            messages_to_create == [k \in DOMAIN kept |->
                                      MessageOf(batch_df[kept[k]], batch_results[kept[k]])]
            scored == SelectSeq(messages_to_create,
                                LAMBDA m : m.sentiment_score # None)
            processed == Len(chat_messages) + Len(messages_to_create)
        IN  /\ chat_messages' = chat_messages \o messages_to_create
            /\ sentiment_scores' =
                   sentiment_scores \o [k \in DOMAIN scored |-> scored[k].sentiment_score[1]]
            /\ progress' = Append(progress, [current |-> processed, total |-> total_messages])
    /\ batch_start' = batch_start + batch_size
    /\ UNCHANGED <<file_content, anonymize, pc, format_type, messages, dates, idx,
                   processed_messages, participants, result, chat_analysis,
                   participants_map, retries>>
    /\ UNCHANGED harness_vars

\* tasks.py 164-236
TaskComplete ==
    /\ pc = "batch"
    /\ batch_start >= Len(result.dataframe[1])
    /\ chat_analysis' =
           IF sentiment_scores # <<>>
           THEN [chat_analysis EXCEPT
                     !.overall_sentiment_score = Some(MeanOfScores(sentiment_scores)),
                     !.overall_sentiment_label = OverallLabel(sentiment_scores),
                     !.status = "completed"]
           ELSE [chat_analysis EXCEPT !.status = "completed"]
    /\ pc' = "completed"
    /\ UNCHANGED <<file_content, anonymize, format_type, messages, dates, idx,
                   processed_messages, participants, result, participants_map,
                   chat_messages, sentiment_scores, progress, batch_start, retries>>
    /\ UNCHANGED harness_vars

Init ==
    /\ PipelineInit
    /\ features = FeaturesIdle
    /\ moods = MoodsIdle
    /\ stamps = StampsIdle
    /\ detect = DetectIdle
    /\ task = TaskIdle
    /\ loading = LoadingIdle
    /\ pool = PoolIdle
    /\ batches = BatchesIdle
    /\ anon = AnonIdle /\ fusion = FusionIdle
    /\ toxicity = ToxicityIdle /\ uploads = UploadsIdle /\ aggregate = AggregateIdle

Next ==
    \/ TaskStart
    \/ PreprocessExtract
    \/ PreprocessMessage
    \/ PreprocessFinish
    \/ TaskFail
    \/ TaskCreateParticipants
    \/ TaskProcessBatch
    \/ TaskComplete

Spec == Init /\ [][Next]_vars

\* anonymize_participants on its own
InitAnon ==
    /\ PipelineIdle /\ AnonInit
    /\ features = FeaturesIdle
    /\ moods = MoodsIdle
    /\ stamps = StampsIdle
    /\ detect = DetectIdle
    /\ task = TaskIdle
    /\ loading = LoadingIdle
    /\ pool = PoolIdle
    /\ batches = BatchesIdle
    /\ fusion = FusionIdle /\ toxicity = ToxicityIdle /\ uploads = UploadsIdle /\ aggregate = AggregateIdle

NextAnon == Anonymize /\ UNCHANGED <<pipeline_vars, fusion, toxicity, uploads, aggregate, batches, pool, loading, task, detect, stamps, moods, features>>

SpecAnon == InitAnon /\ [][NextAnon]_vars

\* analyze_text on its own
InitFusion ==
    /\ PipelineIdle /\ FusionInit
    /\ features = FeaturesIdle
    /\ moods = MoodsIdle
    /\ stamps = StampsIdle
    /\ detect = DetectIdle
    /\ task = TaskIdle
    /\ loading = LoadingIdle
    /\ pool = PoolIdle
    /\ batches = BatchesIdle
    /\ anon = AnonIdle /\ toxicity = ToxicityIdle /\ uploads = UploadsIdle /\ aggregate = AggregateIdle

NextFusion == AnalyzeText /\ UNCHANGED <<pipeline_vars, anon, toxicity, uploads, aggregate, batches, pool, loading, task, detect, stamps, moods, features>>

SpecFusion == InitFusion /\ [][NextFusion]_vars

\* analyze_text called twice on the same input
RerunFirst == AnalyzeText /\ UNCHANGED <<pipeline_vars, anon, toxicity, uploads, aggregate, batches, pool, loading, task, detect, stamps, moods, features>>

RerunSecond == AnalyzeTextAgain /\ UNCHANGED <<pipeline_vars, anon, toxicity, uploads, aggregate, batches, pool, loading, task, detect, stamps, moods, features>>

NextRerun == RerunFirst \/ RerunSecond

SpecRerun == InitFusion /\ [][NextRerun]_vars

\* analyze_toxicity on its own
InitToxicity ==
    /\ PipelineIdle /\ ToxicityInit
    /\ features = FeaturesIdle
    /\ moods = MoodsIdle
    /\ stamps = StampsIdle
    /\ detect = DetectIdle
    /\ task = TaskIdle
    /\ loading = LoadingIdle
    /\ pool = PoolIdle
    /\ batches = BatchesIdle
    /\ anon = AnonIdle /\ fusion = FusionIdle /\ uploads = UploadsIdle /\ aggregate = AggregateIdle

NextToxicity == AnalyzeToxicity /\ UNCHANGED <<pipeline_vars, anon, fusion, uploads, aggregate, batches, pool, loading, task, detect, stamps, moods, features>>

SpecToxicity == InitToxicity /\ [][NextToxicity]_vars

\* uploads on their own
InitUploads ==
    /\ PipelineIdle /\ uploads = UploadsIdle /\ aggregate = AggregateIdle
    /\ features = FeaturesIdle
    /\ moods = MoodsIdle
    /\ stamps = StampsIdle
    /\ detect = DetectIdle
    /\ task = TaskIdle
    /\ loading = LoadingIdle
    /\ pool = PoolIdle
    /\ batches = BatchesIdle
    /\ anon = AnonIdle /\ fusion = FusionIdle /\ toxicity = ToxicityIdle

NextUploads == SerializerCreate \/ ViewCreate

SpecUploads == InitUploads /\ [][NextUploads]_vars

\* the overall statistics on their own
InitAggregate ==
    /\ PipelineIdle /\ AggregateInit
    /\ features = FeaturesIdle
    /\ moods = MoodsIdle
    /\ stamps = StampsIdle
    /\ detect = DetectIdle
    /\ task = TaskIdle
    /\ loading = LoadingIdle
    /\ pool = PoolIdle
    /\ batches = BatchesIdle
    /\ anon = AnonIdle /\ fusion = FusionIdle /\ toxicity = ToxicityIdle
    /\ uploads = UploadsIdle

NextAggregate ==
    AggregateScores /\ UNCHANGED <<pipeline_vars, anon, fusion, toxicity, uploads, batches, pool, loading, task, detect, stamps, moods, features>>

SpecAggregate == InitAggregate /\ [][NextAggregate]_vars

\* the batch loop on its own
InitBatches ==
    /\ PipelineIdle /\ BatchesInit
    /\ features = FeaturesIdle
    /\ moods = MoodsIdle
    /\ stamps = StampsIdle
    /\ detect = DetectIdle
    /\ task = TaskIdle
    /\ loading = LoadingIdle
    /\ pool = PoolIdle
    /\ anon = AnonIdle /\ fusion = FusionIdle /\ toxicity = ToxicityIdle
    /\ uploads = UploadsIdle /\ aggregate = AggregateIdle

BatchPass == ProcessBatch /\ UNCHANGED <<pipeline_vars, anon, fusion, toxicity, uploads, aggregate, pool, loading, task, detect, stamps, moods, features>>

BatchFault == BatchRaises /\ UNCHANGED <<pipeline_vars, anon, fusion, toxicity, uploads, aggregate, pool, loading, task, detect, stamps, moods, features>>

NextBatches == BatchPass \/ BatchFault

SpecBatches == InitBatches /\ [][NextBatches]_vars

\* analyze_batch on its own
InitPool ==
    /\ PipelineIdle /\ PoolInit
    /\ features = FeaturesIdle
    /\ moods = MoodsIdle
    /\ stamps = StampsIdle
    /\ detect = DetectIdle
    /\ task = TaskIdle
    /\ loading = LoadingIdle
    /\ anon = AnonIdle /\ fusion = FusionIdle /\ toxicity = ToxicityIdle
    /\ uploads = UploadsIdle /\ aggregate = AggregateIdle /\ batches = BatchesIdle

PoolUnchanged == UNCHANGED <<pipeline_vars, anon, fusion, toxicity, uploads, aggregate, batches, loading, task, detect, stamps, moods, features>>

PoolTake == (\E i \in DOMAIN pool.texts : WorkerTakes(i)) /\ PoolUnchanged

PoolFinish == (\E i \in DOMAIN pool.texts : WorkerFinishes(i)) /\ PoolUnchanged

PoolEnter == EnterAsCompleted /\ PoolUnchanged

PoolCollect == (\E i \in DOMAIN pool.texts : CollectResult(i)) /\ PoolUnchanged

PoolReturn == ReturnResults /\ PoolUnchanged

NextPool == PoolTake \/ PoolFinish \/ PoolEnter \/ PoolCollect \/ PoolReturn

SpecPool == InitPool /\ [][NextPool]_vars

\* model loading on its own
InitLoading ==
    /\ PipelineIdle /\ LoadingInit
    /\ features = FeaturesIdle
    /\ moods = MoodsIdle
    /\ stamps = StampsIdle
    /\ detect = DetectIdle
    /\ task = TaskIdle
    /\ anon = AnonIdle /\ fusion = FusionIdle /\ toxicity = ToxicityIdle
    /\ uploads = UploadsIdle /\ aggregate = AggregateIdle /\ batches = BatchesIdle
    /\ pool = PoolIdle

LoadingUnchanged == UNCHANGED <<pipeline_vars, anon, fusion, toxicity, uploads, aggregate, batches, pool, task, detect, stamps, moods, features>>

LoadModels == CallLoadModels /\ LoadingUnchanged

LoadingAnalyzeText == CallAnalyzeText /\ LoadingUnchanged

LoadingAnalyzeBatch == CallAnalyzeBatch /\ LoadingUnchanged

LoadingCheck == (\E w \in DOMAIN loading.workers : WorkerChecks(w)) /\ LoadingUnchanged

LoadingLoad == (\E w \in DOMAIN loading.workers : WorkerLoads(w)) /\ LoadingUnchanged

LoadingScore == (\E w \in DOMAIN loading.workers : WorkerScores(w)) /\ LoadingUnchanged

LoadingReturn == BatchReturns /\ LoadingUnchanged

NextLoading ==
    \/ LoadModels
    \/ LoadingAnalyzeText
    \/ LoadingAnalyzeBatch
    \/ LoadingCheck
    \/ LoadingLoad
    \/ LoadingScore
    \/ LoadingReturn

SpecLoading == InitLoading /\ [][NextLoading]_vars

\* the attempts of the task on their own
InitTask ==
    /\ PipelineIdle /\ TaskInit
    /\ features = FeaturesIdle
    /\ moods = MoodsIdle
    /\ stamps = StampsIdle
    /\ detect = DetectIdle
    /\ anon = AnonIdle /\ fusion = FusionIdle /\ toxicity = ToxicityIdle
    /\ uploads = UploadsIdle /\ aggregate = AggregateIdle /\ batches = BatchesIdle
    /\ pool = PoolIdle /\ loading = LoadingIdle

TaskUnchanged == UNCHANGED <<pipeline_vars, anon, fusion, toxicity, uploads, aggregate, batches, pool, loading, detect, stamps, moods, features>>

RetryStart == AttemptStart /\ TaskUnchanged

RetryPreprocess == AttemptPreprocess /\ TaskUnchanged

RetryCreateParticipant == AttemptCreateParticipant /\ TaskUnchanged

RetryBatch == AttemptBatch /\ TaskUnchanged

RetryComplete == AttemptComplete /\ TaskUnchanged

RetryUpdateProfile == AttemptUpdateProfile /\ TaskUnchanged

RetryFault == AttemptFault /\ TaskUnchanged

NextTask ==
    \/ RetryStart
    \/ RetryPreprocess
    \/ RetryCreateParticipant
    \/ RetryBatch
    \/ RetryComplete
    \/ RetryUpdateProfile
    \/ RetryFault

SpecTask == InitTask /\ [][NextTask]_vars

\* detect_format on its own
InitDetect ==
    /\ PipelineIdle /\ DetectInit
    /\ features = FeaturesIdle
    /\ moods = MoodsIdle
    /\ stamps = StampsIdle
    /\ anon = AnonIdle /\ fusion = FusionIdle /\ toxicity = ToxicityIdle
    /\ uploads = UploadsIdle /\ aggregate = AggregateIdle /\ batches = BatchesIdle
    /\ pool = PoolIdle /\ loading = LoadingIdle /\ task = TaskIdle

NextDetect ==
    DetectFormat /\ UNCHANGED <<pipeline_vars, anon, fusion, toxicity, uploads, aggregate, batches, pool, loading, task, stamps, moods, features>>

SpecDetect == InitDetect /\ [][NextDetect]_vars

\* the timestamps on their own
InitStamps ==
    /\ PipelineIdle /\ StampsInit
    /\ features = FeaturesIdle
    /\ moods = MoodsIdle
    /\ anon = AnonIdle /\ fusion = FusionIdle /\ toxicity = ToxicityIdle
    /\ uploads = UploadsIdle /\ aggregate = AggregateIdle /\ batches = BatchesIdle
    /\ pool = PoolIdle /\ loading = LoadingIdle /\ task = TaskIdle
    /\ detect = DetectIdle

StampsUnchanged == UNCHANGED <<pipeline_vars, anon, fusion, toxicity, uploads, aggregate, batches, pool, loading, task, detect, moods, features>>

StampPreprocess == PreprocessStamp /\ StampsUnchanged

StampDemo == DemoStamp /\ StampsUnchanged

NextStamps == StampPreprocess \/ StampDemo

SpecStamps == InitStamps /\ [][NextStamps]_vars

\* the dominant emotions on their own
InitMoods ==
    /\ PipelineIdle /\ MoodsInit
    /\ features = FeaturesIdle
    /\ anon = AnonIdle /\ fusion = FusionIdle /\ toxicity = ToxicityIdle
    /\ uploads = UploadsIdle /\ aggregate = AggregateIdle /\ batches = BatchesIdle
    /\ pool = PoolIdle /\ loading = LoadingIdle /\ task = TaskIdle
    /\ detect = DetectIdle /\ stamps = StampsIdle

NextMoods ==
    ComputeDominantEmotions /\ UNCHANGED <<pipeline_vars, anon, fusion, toxicity, uploads, aggregate, batches, pool, loading, task, detect, stamps, features>>

SpecMoods == InitMoods /\ [][NextMoods]_vars

\* extract_features on its own
InitFeatures ==
    /\ PipelineIdle /\ FeaturesInit
    /\ anon = AnonIdle /\ fusion = FusionIdle /\ toxicity = ToxicityIdle
    /\ uploads = UploadsIdle /\ aggregate = AggregateIdle /\ batches = BatchesIdle
    /\ pool = PoolIdle /\ loading = LoadingIdle /\ task = TaskIdle
    /\ detect = DetectIdle /\ stamps = StampsIdle /\ moods = MoodsIdle

NextFeatures ==
    ExtractFeatures /\ UNCHANGED <<pipeline_vars, anon, fusion, toxicity, uploads, aggregate, batches, pool, loading, task, detect, stamps, moods>>

SpecFeatures == InitFeatures /\ [][NextFeatures]_vars

(***************************************************************************)
(* The transcript as the spec reads it: its records are the timestamp      *)
(* prefixes of the chosen format, each with the text that follows it up to *)
(* the next prefix.                                                        *)
(***************************************************************************)
PrefixPositions(pattern, text) == {i \in DOMAIN text : Matches(pattern, text[i])}

NthPrefix(pattern, text, k) ==
    CHOOSE i \in PrefixPositions(pattern, text) :
        Cardinality({j \in PrefixPositions(pattern, text) : j < i}) = k - 1

TimestampOf(pattern, text, k) == <<PrefixOf(text[NthPrefix(pattern, text, k)]).group>>

ChunkAfter(pattern, text, k) ==
    LET n == Cardinality(PrefixPositions(pattern, text))
        first == NthPrefix(pattern, text, k) + 1
        last == IF k < n THEN NthPrefix(pattern, text, k + 1) - 1 ELSE Len(text)
    IN  SubSeq(text, first, last)

ChosenPattern == patterns[detect_format(file_content)]

LineCount == Cardinality(PrefixPositions(ChosenPattern, file_content))

LineTimestamp(k) == TimestampOf(ChosenPattern, file_content, k)

LineChunk(k) == ChunkAfter(ChosenPattern, file_content, k)

LineSpeaker(k) == extract_user_and_message(LineChunk(k)).username

LineBody(k) == extract_user_and_message(LineChunk(k)).message

\* a line with a parsable timestamp and a non-empty body
ValidLine(k) == parse_datetime(LineTimestamp(k)) # None /\ LineBody(k) # <<>>

\* a valid line of the form 'Speaker: body' without system or media phrase
WellFormedLine(k) ==
    /\ ValidLine(k)
    /\ FirstSep(LineChunk(k)) > 0
    /\ message_type_of(LineBody(k)) = "text"

IsTimestampString(s) == Len(s) = 1 /\ s[1] \in DOMAIN TsFields

Extracted == pc \in {"loop", "preprocessed", "batch", "completed", "failed"}

PreprocessReturned == pc \in {"preprocessed", "batch", "completed", "failed"}

(***************************************************************************)
(* C1: after extract_messages_and_dates, messages and dates have one entry *)
(* per timestamp prefix of the chosen format; the i-th chunk is the text   *)
(* that follows the i-th prefix, the i-th date is that prefix's timestamp, *)
(* and no chunk is a timestamp string.                                     *)
(***************************************************************************)
C1_ChunksPairedWithTimestamps ==
    Extracted =>
        /\ Len(messages) = LineCount
        /\ Len(dates) = LineCount
        /\ \A i \in 1..LineCount :
               /\ messages[i] = LineChunk(i)
               /\ dates[i] = LineTimestamp(i)
               /\ ~IsTimestampString(messages[i])

(***************************************************************************)
(* C2: for a transcript of n >= 1 well-formed lines preprocess succeeds    *)
(* with one record per line: total_messages = n, the i-th record carries   *)
(* the speaker, body and timestamp of line i, total_participants is the    *)
(* number of distinct speakers, and 'System' is no participant.            *)
(***************************************************************************)
WellFormedTranscript ==
    LineCount >= 1 /\ \A k \in 1..LineCount : WellFormedLine(k)

PositiveEnglish(text) ==
    /\ Detect(text) = "en"
    /\ LibraryAnswers(text).vader.compound > 10
    /\ LibraryAnswers(text).textblob.polarity > 10

AllPositiveEnglish ==
    /\ WellFormedTranscript
    /\ \A k \in 1..LineCount : PositiveEnglish(clean_text_for_analysis(LineBody(k)))

C3_PositiveTranscriptIsPositive ==
    AllPositiveEnglish =>
        /\ (PreprocessReturned /\ result.success) =>
               \A i \in DOMAIN result.dataframe[1] :
                   PositiveEnglish(result.dataframe[1][i].cleaned_text) =>
                       /\ is_language_supported("vader", result.dataframe[1][i].language)
                       /\ is_language_supported("textblob", result.dataframe[1][i].language)
        /\ pc = "completed" =>
               /\ \A i \in DOMAIN chat_messages :
                      PositiveEnglish(chat_messages[i].cleaned_text) =>
                          chat_messages[i].sentiment_score # None
               /\ chat_analysis.overall_sentiment_label = "positive"

(***************************************************************************)
(* C4: a record whose body is '<Media omitted>' has message_type 'media',  *)
(* is counted in total_messages, and contributes no sentiment score.       *)
(***************************************************************************)
IsMediaOmitted(text) == text = <<"<Media omitted>">>

C4_MediaOmittedIsMedia ==
    pc = "completed" =>
        /\ \A i \in DOMAIN result.dataframe[1] :
               IsMediaOmitted(result.dataframe[1][i].original_text) =>
                   /\ result.dataframe[1][i].message_type = "media"
                   /\ result.summary[1].total_messages >= i
        /\ \A i \in DOMAIN chat_messages :
               IsMediaOmitted(chat_messages[i].original_text) =>
                   chat_messages[i].sentiment_score = None

(***************************************************************************)
(* C5: when no timestamp prefix of any format occurs in the transcript, or *)
(* every extracted (chunk, timestamp) pair is dropped, preprocess returns  *)
(* success = False with an error message, and dataframe and summary are    *)
(* None.                                                                   *)
(***************************************************************************)
NoPrefixAtAll ==
    \A k \in DOMAIN FormatOrder :
        PrefixPositions(patterns[FormatOrder[k]], file_content) = {}

EveryPairDropped ==
    \A i \in 1..Min(Len(messages), Len(dates)) : ProcessPair(messages[i], dates[i]) = None

C5_EmptyTranscriptFails ==
    (PreprocessReturned /\ (NoPrefixAtAll \/ EveryPairDropped)) =>
        /\ result.success = FALSE
        /\ result.error # None
        /\ result.dataframe = None
        /\ result.summary = None

\* a transcript whose pairs were extracted and all dropped has been refused
C5_Witness ==
    /\ PreprocessReturned
    /\ messages # <<>>
    /\ EveryPairDropped
    /\ result.success = FALSE
    /\ result.error = Some("No valid messages found after preprocessing")

(***************************************************************************)
(* C6: when at least one line of the transcript is valid, preprocess       *)
(* succeeds, every retained record has a timestamp, and total_messages is  *)
(* the number of valid lines.                                              *)
(***************************************************************************)
ValidLineCount == Cardinality({k \in 1..LineCount : ValidLine(k)})

C6_DropTolerance ==
    (PreprocessReturned /\ ValidLineCount >= 1) =>
        /\ result.success
        /\ result.summary[1].total_messages = ValidLineCount
        /\ \A i \in DOMAIN result.dataframe[1] :
               Some(result.dataframe[1][i].timestamp) # None

(***************************************************************************)
(* C7: anonymize_participants depends on the set of labels only: two lists *)
(* with the same set of labels get the same mapping, and distinct labels   *)
(* get distinct ids.                                                       *)
(***************************************************************************)
C7_AnonymizationStable ==
    anon.stage = "done" =>
        /\ Range(anon.in1) = Range(anon.in2) => anon.out1 = anon.out2
        /\ DOMAIN anon.out1 = Range(anon.in1)
        /\ \A a, b \in DOMAIN anon.out1 : a # b => anon.out1[a] # anon.out1[b]

\* two different lists of the same three labels, two of them not reserved
C7_Witness ==
    /\ anon.stage = "done"
    /\ anon.in1 # anon.in2
    /\ Range(anon.in1) = {"Zoe", "Ann", "System"}
    /\ anon.out1 = anon.out2
    /\ anon.out1["Ann"] = "User_01"

(***************************************************************************)
(* C8: reserved labels map to themselves, and the k other labels, taken in *)
(* sorted order, get User_01 .. User_k without gaps.                       *)
(***************************************************************************)
OthersBefore(l, S) == Cardinality({x \in S : ~IsReserved(x) /\ Rank(x) < Rank(l)})

C8_ConsecutiveIds ==
    anon.stage = "done" =>
        \A l \in DOMAIN anon.out1 :
            IF IsReserved(l) THEN anon.out1[l] = l
            ELSE anon.out1[l] = "User_" \o Fmt02d(OthersBefore(l, DOMAIN anon.out1) + 1)

(***************************************************************************)
(* C9: every scorer verdict and every ensemble verdict has the label its   *)
(* score gives under the thresholds 0.1 and -0.1.                          *)
(***************************************************************************)
ThresholdLabel(score) ==
    IF ScoreGT(score, 10) THEN "positive"
    ELSE IF ScoreLT(score, -10) THEN "negative"
    ELSE "neutral"

AsFraction(x) == [num |-> x, den |-> 1]

FusionDone == fusion.stage = "done"

Contributed == IF FusionDone THEN fusion.result.sentiment_results ELSE <<>>

VerdictOf(name) ==
    LET i == CHOOSE i \in DOMAIN Contributed : Contributed[i].name = name
    IN  Contributed[i].verdict

HasVerdict(name) == \E i \in DOMAIN Contributed : Contributed[i].name = name

C9_UniformThresholds ==
    FusionDone =>
        /\ \A i \in DOMAIN Contributed :
               Contributed[i].verdict.label =
                   ThresholdLabel(AsFraction(Contributed[i].verdict.score))
        /\ fusion.result.ensemble_sentiment # EmptyDict =>
               fusion.result.ensemble_sentiment.label =
                   ThresholdLabel(fusion.result.ensemble_sentiment.score)

ContributedLabels == [i \in DOMAIN Contributed |-> Contributed[i].verdict.label]

IsMostFrequent(l) ==
    \A i \in DOMAIN ContributedLabels :
        Count(ContributedLabels, ContributedLabels[i]) <= Count(ContributedLabels, l)

\* C9 as amended: a TextBlob verdict, and a Transformer verdict of the
\* default three-class model, has the label its score gives under the
\* thresholds 0.1 and -0.1; a VADER verdict is positive from 0.05 up and
\* negative from -0.05 down, both inclusive, and neutral in between; the
\* ensemble label is not derived from the ensemble score: it is a label that
\* is most frequent among the contributing verdicts, and the verdict of an
\* empty text is neutral with score 0.
C9_ScorerThresholds ==
    FusionDone =>
        /\ \A i \in DOMAIN Contributed :
               LET v == Contributed[i].verdict
               IN  IF Contributed[i].name = "vader"
                   THEN v.label = (IF v.score >= 5 THEN "positive"
                                   ELSE IF v.score <= -5 THEN "negative"
                                   ELSE "neutral")
                   ELSE v.label = ThresholdLabel(AsFraction(v.score))
        /\ fusion.result.ensemble_sentiment # EmptyDict =>
               IF Contributed = <<>>
               THEN /\ fusion.result.ensemble_sentiment.label = "neutral"
                    /\ fusion.result.ensemble_sentiment.score = AsFraction(0)
               ELSE /\ \E i \in DOMAIN ContributedLabels :
                           fusion.result.ensemble_sentiment.label = ContributedLabels[i]
                    /\ IsMostFrequent(fusion.result.ensemble_sentiment.label)

\* the three scorers contributed; VADER called 0.07 positive and TextBlob
\* called 0.10 neutral
C9_Witness ==
    /\ FusionDone
    /\ Len(Contributed) = 3
    /\ VerdictOf("vader").score = 7 /\ VerdictOf("vader").label = "positive"
    /\ VerdictOf("textblob").score = 10 /\ VerdictOf("textblob").label = "neutral"
    /\ VerdictOf("roberta").label = "negative"

(***************************************************************************)
(* C10: the ensemble label is the most frequent contributing label, and    *)
(* among labels tied for most frequent it is the label of the scorer that  *)
(* comes first in the pool's registration order.                           *)
(***************************************************************************)
FirstMostFrequent ==
    LET i == CHOOSE i \in DOMAIN ContributedLabels :
                 /\ IsMostFrequent(ContributedLabels[i])
                 /\ \A j \in 1..(i - 1) : ~IsMostFrequent(ContributedLabels[j])
    IN  ContributedLabels[i]

C10_TieBreakByRegistrationOrder ==
    (FusionDone /\ Contributed # <<>>) =>
        fusion.result.ensemble_sentiment.label = FirstMostFrequent

(***************************************************************************)
(* C11: for an empty or whitespace-only text, and for a non-empty text     *)
(* whose language no registered scorer supports, analyze_text returns the  *)
(* neutral empty verdict {score 0.0, label neutral, confidence 0.0} as     *)
(* its ensemble: the ensemble is never without score and label.            *)
(***************************************************************************)
NoScorerSupports(language, use_transformers) ==
    \A i \in DOMAIN analyzers(use_transformers) :
        ~is_language_supported(analyzers(use_transformers)[i], language)

IsNeutralEmptyVerdict(e) ==
    /\ e # EmptyDict
    /\ e.score.num = 0
    /\ e.label = "neutral"
    /\ e.confidence = 0

C11_ZeroContributorsNeutral ==
    (/\ FusionDone
     /\ \/ StripStr(fusion.text) = ""
        \/ NoScorerSupports(fusion.language, fusion.use_transformers))
        => IsNeutralEmptyVerdict(fusion.result.ensemble_sentiment)

(***************************************************************************)
(* C12: for a non-empty text the contributing scorers are exactly the      *)
(* registered scorers that support the language, the ensemble score is     *)
(* the arithmetic mean of their scores, and a scorer that does not         *)
(* support the language contributes nothing.                               *)
(***************************************************************************)
SupportingScorers(language, use_transformers) ==
    SelectSeq(analyzers(use_transformers),
              LAMBDA name : is_language_supported(name, language))

ContributedNames == [i \in DOMAIN Contributed |-> Contributed[i].name]

ContributedScores == [i \in DOMAIN Contributed |-> Contributed[i].verdict.score]

C12_MeanOfSupportingScorers ==
    (FusionDone /\ fusion.text # "") =>
        /\ ContributedNames = SupportingScorers(fusion.language, fusion.use_transformers)
        /\ ContributedNames # <<>> =>
               /\ fusion.result.ensemble_sentiment # EmptyDict
               /\ fusion.result.ensemble_sentiment.score.num * Len(ContributedScores)
                      = fusion.result.ensemble_sentiment.score.den * SumSeq(ContributedScores)

(***************************************************************************)
(* C15: no scorer lets an internal failure out: every scorer that is       *)
(* invoked returns a verdict, and it returns the degraded verdict          *)
(* {score 0.0, label neutral, confidence 0.0} when its library call or     *)
(* the loading of its model fails.                                         *)
(***************************************************************************)
Invoked ==
    IF FusionDone /\ fusion.text # ""
    THEN SupportingScorers(fusion.language, fusion.use_transformers)
    ELSE <<>>

FailsInside(name) ==
    \/ fusion.raw[name].fault
    \/ name \in {"vader", "roberta"} /\ fusion.raw[name].load_error

C15_ScorersDegradeOnFailure ==
    \A i \in DOMAIN Invoked :
        /\ HasVerdict(Invoked[i])
        /\ FailsInside(Invoked[i]) => VerdictOf(Invoked[i]) = Degraded

(***************************************************************************)
(* C13: whenever a scorer contributes, the ensemble confidence is          *)
(* 1 - min(population standard deviation of the contributing scores, 1):   *)
(* it lies in [0, 1], it is 1 when all contributing scores are equal, and  *)
(* it is a function of the scores alone, not of the scorers' own           *)
(* confidences.                                                            *)
(***************************************************************************)
\* the sum of the squared deviations from the mean, times Len ^ 2
SquaredDeviations(scores) ==
    SumSeq([i \in DOMAIN scores |->
               (Len(scores) * scores[i] - SumSeq(scores))
                   * (Len(scores) * scores[i] - SumSeq(scores))])

\* d hundredths is the population standard deviation rounded down
IsPopulationStd(d, scores) ==
    LET n3 == Len(scores) * Len(scores) * Len(scores)
    IN  /\ d * d * n3 <= SquaredDeviations(scores)
        /\ SquaredDeviations(scores) < (d + 1) * (d + 1) * n3

C13_ConfidenceFromSpread ==
    (FusionDone /\ Contributed # <<>>) =>
        LET confidence == fusion.result.ensemble_sentiment.confidence
        IN  /\ confidence \in 0..100
            /\ \/ IsPopulationStd(100 - confidence, ContributedScores)
               \/ /\ confidence = 0
                  /\ SquaredDeviations(ContributedScores)
                         >= 10000 * Len(ContributedScores) * Len(ContributedScores)
                                * Len(ContributedScores)
            /\ (\A i, j \in DOMAIN ContributedScores :
                    ContributedScores[i] = ContributedScores[j]) => confidence = 100

\* three scorers with different scores and different confidences of their
\* own: the ensemble confidence is strictly between 0 and 1
C13_Witness ==
    /\ FusionDone
    /\ Len(Contributed) = 3
    /\ ContributedScores = <<60, -10, 90>>
    /\ Contributed[1].verdict.confidence # Contributed[2].verdict.confidence
    /\ fusion.result.ensemble_sentiment.confidence = 100 - 41

(***************************************************************************)
(* C14: with the optional scorers disabled, analyze_text on a non-empty    *)
(* text in a supported language returns an ensemble with a score and a     *)
(* label computed from exactly the two lexicon scorers, vader and          *)
(* textblob, and model_agreement is true iff the two returned the same     *)
(* label.                                                                  *)
(***************************************************************************)
LexiconOnly == FusionDone /\ ~fusion.use_transformers /\ fusion.text # ""

AllLabelsEqual ==
    \A i, j \in DOMAIN ContributedLabels : ContributedLabels[i] = ContributedLabels[j]

EnsembleIsMeanOfContributed ==
    /\ fusion.result.ensemble_sentiment # EmptyDict
    /\ fusion.result.ensemble_sentiment.score.num * Len(ContributedScores)
           = fusion.result.ensemble_sentiment.score.den * SumSeq(ContributedScores)
    /\ \E i \in DOMAIN ContributedLabels :
           fusion.result.ensemble_sentiment.label = ContributedLabels[i]

C16_SameVerdictOnRerun ==
    fusion.stage = "again" =>
        fusion.result2.ensemble_sentiment = fusion.result.ensemble_sentiment

(***************************************************************************)
(* C18: every result of analyze_toxicity, from the model or from the       *)
(* keyword heuristic, has toxicity_score in [0, 1] and is_toxic iff        *)
(* toxicity_score > 0.5.                                                   *)
(***************************************************************************)
C18_ToxicFlagMatchesScore ==
    toxicity.stage = "done" =>
        /\ toxicity.result.toxicity_score \in 0..100
        /\ toxicity.result.is_toxic <=> (toxicity.result.toxicity_score > 50)

(***************************************************************************)
(* C19: with the optional models disabled, analyze_text still returns a    *)
(* toxicity result for every non-empty text, computed by the keyword       *)
(* heuristic min(count * 0.3, 1.0).                                        *)
(***************************************************************************)
C19_HeuristicToxicityWithoutModels ==
    LexiconOnly =>
        /\ fusion.result.toxicity_results # EmptyDict
        /\ fusion.result.toxicity_results.toxicity_score
               = Min(30 * Cardinality(ToxicWordsIn(fusion.text)), 100)

(***************************************************************************)
(* C17: the content hash preprocess reports depends on the content only:   *)
(* equal contents give equal hashes whatever the anonymize flag, and two   *)
(* submissions by the same user with equal hashes are detected as          *)
(* duplicates, so both are never stored.                                   *)
(***************************************************************************)
C17_HashDetectsDuplicates ==
    \A i, j \in DOMAIN uploads.rows :
        /\ uploads.rows[i].file_content = uploads.rows[j].file_content
               => uploads.rows[i].summary_file_hash = uploads.rows[j].summary_file_hash
        /\ (/\ i # j
            /\ uploads.rows[i].user = uploads.rows[j].user)
               => uploads.rows[i].summary_file_hash # uploads.rows[j].summary_file_hash

(***************************************************************************)
(* C20: the overall label is 'positive' when more non-null message scores  *)
(* lie above 0.1 than below -0.1, 'negative' when more lie below -0.1,     *)
(* and 'neutral' when the two counts are equal; the overall score is the   *)
(* mean of the non-null message scores.                                    *)
(***************************************************************************)
NonNullScores ==
    LET scored == SelectSeq(aggregate.message_scores, LAMBDA score : score # None)
    IN  [k \in DOMAIN scored |-> scored[k][1]]

CountAbove == Cardinality({k \in DOMAIN NonNullScores :
                              10 * NonNullScores[k].num > 100 * NonNullScores[k].den})

CountBelow == Cardinality({k \in DOMAIN NonNullScores :
                              10 * NonNullScores[k].num < -100 * NonNullScores[k].den})

LabelByCounts ==
    IF CountAbove > CountBelow THEN "positive"
    ELSE IF CountBelow > CountAbove THEN "negative"
    ELSE "neutral"

\* the sum of a sequence of fractions, as a fraction
RECURSIVE SumOfFractions(_)
SumOfFractions(qs) ==
    IF qs = <<>> THEN [num |-> 0, den |-> 1]
    ELSE LET rest == SumOfFractions(Tail(qs))
         IN  [num |-> Head(qs).num * rest.den + rest.num * Head(qs).den,
              den |-> Head(qs).den * rest.den]

IsMeanOfNonNull(q) ==
    q.num * SumOfFractions(NonNullScores).den * Len(NonNullScores)
        = q.den * SumOfFractions(NonNullScores).num

C20_OverallLabelByCounts ==
    aggregate.stage = "done" =>
        /\ aggregate.overall_sentiment_label = LabelByCounts
        /\ NonNullScores # <<>> =>
               /\ aggregate.overall_sentiment_score # None
               /\ IsMeanOfNonNull(aggregate.overall_sentiment_score[1])

\* C20 as amended: when at least one message score is non-null, the overall
\* label is obtained from the counts of non-null scores above 0.1 and below
\* -0.1 as stated and the overall score is their mean; when no message
\* score is non-null, the overall label and score are left unset ('' and
\* null).
C20_OverallLabelWhenScored ==
    aggregate.stage = "done" =>
        IF NonNullScores = <<>>
        THEN /\ aggregate.overall_sentiment_label = ""
             /\ aggregate.overall_sentiment_score = None
        ELSE /\ aggregate.overall_sentiment_label = LabelByCounts
             /\ aggregate.overall_sentiment_score # None
             /\ IsMeanOfNonNull(aggregate.overall_sentiment_score[1])

\* a null score is skipped, 0.10 is not counted as positive, -0.60 is
\* counted as negative
C20_Witness ==
    /\ aggregate.stage = "done"
    /\ aggregate.message_scores
           = <<Some([num |-> 10, den |-> 1]), None, Some([num |-> -60, den |-> 1])>>
    /\ aggregate.overall_sentiment_label = "negative"
    /\ aggregate.overall_sentiment_score = Some([num |-> -300, den |-> 12])

(***************************************************************************)
(* C21: progress is reported once after each batch of at most 100          *)
(* messages and at no other time; over the reports the total is constant,  *)
(* the processed count does not decrease and never exceeds the total.      *)
(***************************************************************************)
BatchesNeeded(total) == (total + batch_size - 1) \div batch_size

C21_ProgressAtBatchBoundaries ==
    batches.stage # "idle" =>
        LET reports == batches.reports
            total == RowCount(batches.df)
            before(k) == IF k = 1 THEN 0 ELSE reports[k - 1].current
        IN  /\ Len(reports) * batch_size = batches.i
            /\ Len(reports) <= BatchesNeeded(total)
            /\ batches.stage = "done" => Len(reports) = BatchesNeeded(total)
            /\ \A k \in DOMAIN reports :
                   /\ reports[k].total = total
                   /\ before(k) <= reports[k].current
                   /\ reports[k].current - before(k) <= batch_size
                   /\ reports[k].current <= reports[k].total

\* three batches over 201 rows, the second made of 'System' rows only
C21_Witness ==
    /\ batches.stage = "done"
    /\ Len(batches.reports) = 3
    /\ batches.reports[1].current = batch_size
    /\ batches.reports[2].current = batch_size
    /\ batches.reports[3] = [current |-> batch_size + 1, total |-> 2 * batch_size + 1]

(***************************************************************************)
(* C22: whatever the anonymize flag, a completed run has one participant   *)
(* record per non-System speaker of the DataFrame and one message record   *)
(* per row of such a speaker, in row order; the flag changes only the      *)
(* display identifier (anonymized_name) of a participant.                  *)
(***************************************************************************)
SpeakerRows ==
    SelectSeq(result.dataframe[1], LAMBDA row : row.username # "System")

C22_AnonymizeChangesOnlyNames ==
    pc = "completed" =>
        /\ DOMAIN participants_map = {row.username : row \in Range(SpeakerRows)}
        /\ Len(chat_messages) = Len(SpeakerRows)
        /\ \A k \in DOMAIN chat_messages :
               /\ chat_messages[k].participant = SpeakerRows[k].username
               /\ chat_messages[k].original_text = SpeakerRows[k].original_text

(***************************************************************************)
(* C23: analyze_batch returns one result per input text, and in every      *)
(* interleaving of the workers the i-th result is the analysis of the i-th *)
(* input text.                                                             *)
(***************************************************************************)
C23_BatchResultsInInputOrder ==
    pool.phase = "returned" =>
        /\ Len(pool.results) = Len(pool.texts)
        /\ \A i \in DOMAIN pool.texts :
               pool.results[i] = FutureResult(pool.texts[i], pool.order)

(***************************************************************************)
(* C24: over any sequence of load_models, analyze_text and analyze_batch   *)
(* calls on one pool, the load_model of each scorer runs at most once and  *)
(* never inside a worker of analyze_batch; a scorer whose load failed is   *)
(* not loaded again on later messages.                                     *)
(***************************************************************************)
C24_LoadOnceBeforeScoring ==
    loading.stage = "ready" =>
        /\ \A name \in Scorers : loading.load_runs[name] <= 1
        /\ ~loading.loaded_in_worker

(***************************************************************************)
(* C25: once the analysis has been saved as 'completed', neither the same  *)
(* attempt nor a retry changes its status to 'failed' or 'processing';     *)
(* the task ends with the status 'completed' or 'failed' after at most     *)
(* 1 + max_retries attempts.                                               *)
(***************************************************************************)
TaskEnded == task.at \in {"returned", "failed"}

C25_CompletedIsFinal ==
    /\ [][task.at # "idle" /\ task.status = "completed"
              => task'.status = "completed"]_vars
    /\ [](TaskEnded => /\ task.status \in {"completed", "failed"}
                       /\ task.retries + 1 <= 1 + max_retries)

(***************************************************************************)
(* C26: a task that was interrupted by an exception after participants or  *)
(* message batches had been stored, and was retried, ends with the records *)
(* of an uninterrupted run: each participant and each message batch stored *)
(* once, and the retry does not fail because of the earlier records.       *)
(***************************************************************************)
InterruptedPartWay ==
    /\ task.preprocess_ok /\ task.has_profile
    /\ task.faults_after_rows > 0

C26_RetryIsIdempotent ==
    (TaskEnded /\ InterruptedPartWay) =>
        /\ task.at = "returned"
        /\ task.participant_rows = 1..task.speakers
        /\ \A b \in DOMAIN task.message_rows : task.message_rows[b] = 1

(***************************************************************************)
(* C27: detect_format returns the first of android, ios, web whose         *)
(* timestamp prefix occurs within the first 1000 characters of the text,   *)
(* and 'android' when none does; each of the three formats is returned     *)
(* for some text.                                                          *)
(***************************************************************************)
\* a prefix of the format's grammar ends within the first 1000 characters
OccursInWindow(fmt, text) ==
    \E i \in DOMAIN text :
        /\ IsPrefixTok(text[i])
        /\ PrefixOf(text[i]).grammar = patterns[fmt]
        /\ TextLen(SubSeq(text, 1, i)) <= 1000

FirstFormatInWindow(text) ==
    IF OccursInWindow("android", text) THEN "android"
    ELSE IF OccursInWindow("ios", text) THEN "ios"
    ELSE IF OccursInWindow("web", text) THEN "web"
    ELSE "android"

FormatsReturned == {detect_format(text) : text \in DetectTexts}

C27_FirstMatchingFormat ==
    /\ detect.stage = "done" => detect.format_type = FirstFormatInWindow(detect.text)
    /\ FormatsReturned = {"android", "ios", "web"}

(***************************************************************************)
(* C28: the datetime grammars are tried in a fixed order and the first     *)
(* that succeeds gives the timestamp, so a date valid both as day/month    *)
(* and as month/day is read as day/month; when no grammar matches, the     *)
(* record is dropped and not kept with a substitute timestamp.             *)
(***************************************************************************)
\* the date strings handled so far
Handled == {stamps.date_strs[j] : j \in 1..stamps.k}

KeptFor(date_str) == {r \in Range(stamps.kept) : r.date_str = date_str}

ValidDate(day, month, year) == month \in 1..12 /\ day \in 1..DaysInMonth(year, month)

FullYear(f) == IF f.ydigits = 4 THEN f.year
               ELSE IF f.year <= 68 THEN 2000 + f.year ELSE 1900 + f.year

ValidBothWays(f) ==
    ValidDate(f.a, f.b, FullYear(f)) /\ ValidDate(f.b, f.a, FullYear(f))

ValidNoWay(f) ==
    ~ValidDate(f.a, f.b, FullYear(f)) /\ ~ValidDate(f.b, f.a, FullYear(f))

C28_DayMonthFirstElseDropped ==
    stamps.stage # "idle" =>
        \A date_str \in Handled :
            /\ ValidBothWays(TsFields[date_str]) =>
                   \A r \in KeptFor(date_str) :
                       /\ r.timestamp.day = TsFields[date_str].a
                       /\ r.timestamp.month = TsFields[date_str].b
            /\ ValidNoWay(TsFields[date_str]) => KeptFor(date_str) = {}

(***************************************************************************)
(* C29: the dominant emotion of the conversation, and of each participant, *)
(* is the most frequent dominant emotion of the messages; among emotions   *)
(* tied for most frequent it is the earliest in the catalog's order (joy,  *)
(* sadness, anger, fear, surprise, disgust).                               *)
(***************************************************************************)
CatalogRank(e) == CHOOSE i \in DOMAIN emotions : emotions[i] = e

\* e is most frequent in data, and no emotion as frequent comes before it in
\* the catalog
IsCatalogMode(e, data) ==
    /\ Count(data, e) > 0
    /\ \A i \in DOMAIN emotions :
           /\ Count(data, emotions[i]) <= Count(data, e)
           /\ Count(data, emotions[i]) = Count(data, e) => CatalogRank(e) <= i

C29_DominantEmotionByCatalogOrder ==
    moods.stage = "done" =>
        /\ EmotionsOf(moods.stored) # <<>> =>
               IsCatalogMode(moods.dominant_emotion, EmotionsOf(moods.stored))
        /\ \A p \in MoodParticipants :
               LET mine == EmotionsOf(SelectSeq(moods.stored,
                                                LAMBDA message : message.participant = p))
               IN  mine # <<>> => IsCatalogMode(moods.participant_emotion[p], mine)

(***************************************************************************)
(* C30: caps_ratio is the number of uppercase characters of the body       *)
(* divided by the number of its characters that have a case; it is 0 for   *)
(* an empty body and lies in [0, 1] otherwise; a body made only of         *)
(* uppercase letters and digits or punctuation has caps_ratio 1.           *)
(***************************************************************************)
IsUppercase(c) == c \in {"A", "Z"}

HasCase(c) == c \in {"A", "Z", "b"}

UpperCount(message) == Cardinality({i \in DOMAIN message : IsUppercase(message[i])})

CasedCount(message) == Cardinality({i \in DOMAIN message : HasCase(message[i])})

C30_CapsRatioOverCasedCharacters ==
    features.stage = "done" =>
        LET message == features.message
            ratio == features.caps_ratio
        IN  /\ message = <<>> => ratio.num = 0
            /\ 0 <= ratio.num /\ ratio.num <= ratio.den
            /\ CasedCount(message) > 0 =>
                   ratio.num * CasedCount(message) = UpperCount(message) * ratio.den
====
